---------------------------- MODULE Spec2Model ----------------------------
(***************************************************************************)
(* The partial-input consolidation engine of the repository: CacheService  *)
(* (services/cacheService.js), the Redis-backed store of pending messages  *)
(* with its per-key Node timers, and the TextInput collection it flushes   *)
(* to.  Texts are sequences of one-character strings.  Time is counted in  *)
(* seconds; an awaited Redis or MongoDB call is one atomic step, and the   *)
(* synchronous code up to the next await runs in the same step.  A call    *)
(* in flight ends before the clock moves on (a round trip is shorter than  *)
(* TickSeconds); calls overlap freely within one second.                   *)
(***************************************************************************)
EXTENDS Integers, Sequences, FiniteSets, TLC

(***************************************************************************)
(* Bounds of the model.                                                    *)
(***************************************************************************)
\* steps of the clock in one run
MaxTicks == 2
\* checkAndUpdateMessage calls in one run on one key
MaxIngest == 3
\* checkAndUpdateMessage calls in one run on several keys
MaxIngestKeys == 2
\* completeAllPendingMessages calls in one run
MaxAll == 1
\* calls and timer callbacks that may be in flight at once
MaxInFlight == 2
\* saves the store may refuse in one run
MaxSaveFailures == 1
\* translateText calls in one run, overlapping
MaxTranslate == 3
\* translateText calls in one run, one at a time
MaxTranslateSeq == 2
\* translateText calls that may be in flight at once
MaxTrInFlight == 2
\* steps of the clock in one run of the translation service
MaxTrTicks == 2
\* the longest text over {h, e} among the texts given to the matcher
MaxMatchLen == 6
\* the partial inputs of a run of the matcher
MaxMatchIngest == 2
\* the requests of a run of the route
MaxRequests == 3

(***************************************************************************)
(* Program constants.                                                      *)
(***************************************************************************)
\* client.setEx(cacheKey, 30, ...): the TTL of a pending message, seconds
CacheTTL == 30
\* setTimeout(..., 30 * 1000): the flush timer, in seconds
TimeoutSeconds == 30

\* seconds that pass in one step of the clock: half the idle window
TickSeconds == CacheTTL \div 2

(***************************************************************************)
(* The inputs: keys (deviceId, packageName, viewId) and texts.             *)
(***************************************************************************)
Key1 == << <<"d","1">>, <<"p">>, <<"v">> >>

Key2 == << <<"d","2">>, <<"p">>, <<"v">> >>

Keys == {Key1, Key2}

Texts == { <<"h">>, <<"h","e">>, <<"x","y">> }

(***************************************************************************)
(* String.prototype.toLowerCase, trim and includes on the model alphabet.  *)
(***************************************************************************)
lowerChar(c) ==
    CASE c = "H" -> "h"
      [] c = "E" -> "e"
      [] c = "X" -> "x"
      [] c = "Y" -> "y"
      [] OTHER -> c

toLowerCase(s) == [i \in 1..Len(s) |-> lowerChar(s[i])]

isSpace(c) == c = " "

RECURSIVE trimStart(_)
trimStart(s) ==
    IF s # <<>> /\ isSpace(Head(s)) THEN trimStart(Tail(s)) ELSE s

RECURSIVE trimEnd(_)
trimEnd(s) ==
    IF s # <<>> /\ isSpace(s[Len(s)]) THEN trimEnd(SubSeq(s, 1, Len(s) - 1)) ELSE s

\* a trim that removes nothing
noTrim(s) == s

trim(s) == trimEnd(trimStart(s))

\* a.includes(b)
includes(a, b) ==
    \E i \in 0..(Len(a) - Len(b)) : SubSeq(a, i + 1, i + Len(b)) = b

min3(a, b, c) ==
    IF a <= b /\ a <= c THEN a ELSE IF b <= c THEN b ELSE c

\* a distance that only counts the difference of the lengths
lengthDifference(str1, str2) ==
    IF Len(str1) > Len(str2) THEN Len(str1) - Len(str2)
    ELSE Len(str2) - Len(str1)

\* a distance in which a character is never substituted, only deleted and
\* inserted
indelDistance(str1, str2) ==
    LET matrix[i \in 0..Len(str2), j \in 0..Len(str1)] ==
            IF i = 0 THEN j
            ELSE IF j = 0 THEN i
            ELSE IF str2[i] = str1[j] THEN matrix[i - 1, j - 1]
            ELSE min3(matrix[i - 1, j - 1] + 2, matrix[i, j - 1] + 1, matrix[i - 1, j] + 1)
    IN  matrix[Len(str2), Len(str1)]

(***************************************************************************)
(* levenshteinDistance(str1, str2): the matrix of the code, row i for a    *)
(* prefix of str2 and column j for a prefix of str1.                       *)
(***************************************************************************)
levenshteinDistance(str1, str2) ==
    LET matrix[i \in 0..Len(str2), j \in 0..Len(str1)] ==
            IF i = 0 THEN j
            ELSE IF j = 0 THEN i
            ELSE IF str2[i] = str1[j] THEN matrix[i - 1, j - 1]
            ELSE min3(matrix[i - 1, j - 1] + 1, matrix[i, j - 1] + 1, matrix[i - 1, j] + 1)
    IN  matrix[Len(str2), Len(str1)]

\* a ratio against the length of the first text, whichever is longer
similarityToFirst(str1, str2) ==
    IF Len(str1) = 0 THEN <<1, 1>>
    ELSE <<Len(str1) - levenshteinDistance(str1, str2), Len(str1)>>

(***************************************************************************)
(* calculateSimilarity(str1, str2): the ratio (longer.length - distance) / *)
(* longer.length as the pair <<numerator, denominator>>; 1.0 is <<1, 1>>.  *)
(***************************************************************************)
calculateSimilarity(str1, str2) ==
    LET longer  == IF Len(str1) > Len(str2) THEN str1 ELSE str2
        shorter == IF Len(str1) > Len(str2) THEN str2 ELSE str1
    IN  IF Len(longer) = 0 THEN <<1, 1>>
        ELSE <<Len(longer) - levenshteinDistance(longer, shorter), Len(longer)>>

\* a comparison that lets the ratio 0.8 pass
atThreshold(sim) == 10 * sim[1] >= 8 * sim[2]

\* similarity > 0.8 on the ratio: n/d > 8/10
aboveThreshold(sim) == 10 * sim[1] > 8 * sim[2]

(***************************************************************************)
(* isTextPartOfMessage(existingText, incomingText).                        *)
(***************************************************************************)
isTextPartOfMessage(existingText, incomingText) ==
    IF existingText = <<>> \/ incomingText = <<>> THEN FALSE
    ELSE LET normalizedExisting == trim(toLowerCase(existingText))
             normalizedIncoming == trim(toLowerCase(incomingText))
         IN  IF includes(normalizedIncoming, normalizedExisting) THEN TRUE
             ELSE IF includes(normalizedExisting, normalizedIncoming) THEN TRUE
             ELSE aboveThreshold(calculateSimilarity(normalizedExisting, normalizedIncoming))


(***************************************************************************)
(* The state.                                                              *)
(*   now              the clock, in seconds                                *)
(*   isConnected      CacheService.isConnected                             *)
(*   redis            the Redis keyspace: cache key -> [val, expireAt]     *)
(*   timers           the armed Node timers [id, key, fireAt, entry]       *)
(*   messageTimeouts  CacheService.messageTimeouts: timer key -> timer id  *)
(*   procs            the calls in flight, each at an await                *)
(*   db               the TextInput collection                             *)
(*   nIngest, nAll    calls made so far; a call is named by its number,    *)
(*                    and so is the timer it arms                          *)
(*   nFail            saves the store has refused so far                   *)
(*   log              what the checkAndUpdateMessage calls returned        *)
(*   allLog           what the completeAllPendingMessages calls left       *)
(*   gone             history: the entries that left the keyspace          *)
(* and of ChatGPTTranslationService (services/translationService.js):      *)
(*   groqKey, openaiKey  whether this.groqKey / this.openaiKey is set      *)
(*   cache            this.cache: cache key -> cached result                *)
(*   calls            the translateText calls in flight                    *)
(*   returns          what the translateText calls returned                *)
(*   nTranslate       translateText calls made so far                      *)
(* and of the route POST /api/text-inputs (routes/textInputs.js):          *)
(*   direct           the saveTextInputToDB calls in flight                *)
(*   replies          the responses sent to complete and invalid events    *)
(***************************************************************************)
VARIABLES now, isConnected, redis, timers, messageTimeouts, procs, db,
          nIngest, nAll, nFail, log, allLog, gone,
          groqKey, openaiKey, cache, calls, returns, nTranslate,
          direct, replies

\* the state of CacheService, its timers and the TextInput collection
cacheVars == <<isConnected, redis, timers, messageTimeouts, procs, db,
               nIngest, nAll, nFail, log, allLog, gone>>

\* the state of ChatGPTTranslationService
trVars == <<groqKey, openaiKey, cache, calls, returns, nTranslate>>

\* the state of the route
routeVars == <<direct, replies>>

vars == <<now, cacheVars, trVars, routeVars>>

\* getCacheKey: `pending_message:${deviceId}:${packageName}:${viewId}`
getCacheKey(deviceId, packageName, viewId) ==
    <<"pending_message">> \o <<":">> \o deviceId \o <<":">> \o packageName
        \o <<":">> \o viewId

\* the key of messageTimeouts: `${deviceId}:${packageName}:${viewId}`
timeoutKey(deviceId, packageName, viewId) ==
    deviceId \o <<":">> \o packageName \o <<":">> \o viewId

\* the id of the saved document:
\* `${deviceId}_${packageName}_${viewId}_${startTime}`
recordId(m) ==
    <<m.deviceId \o <<"_">> \o m.packageName \o <<"_">> \o m.viewId \o <<"_">>,
      m.startTime>>

\* no cachedMessage (null)
NoMsg ==
    [deviceId |-> <<>>, packageName |-> <<>>, viewId |-> <<>>,
     currentText |-> <<>>, lastUpdateTime |-> 0, startTime |-> <<0, 0>>,
     isActive |-> FALSE, updateCount |-> 0]

\* messageData / newMessageData of checkAndUpdateMessage.  Date.now() is
\* the clock; the startTime of a new entry carries the number of the call
\* that made it for its milliseconds, two entries of a key being created a
\* round trip apart.
messageData(deviceId, packageName, viewId, incomingText, call) ==
    [deviceId |-> deviceId, packageName |-> packageName, viewId |-> viewId,
     currentText |-> incomingText, lastUpdateTime |-> now,
     startTime |-> <<now, call>>, isActive |-> TRUE, updateCount |-> 1]

\* the update of a cached message by a continuation
updatedMessage(cachedMessage, incomingText) ==
    [cachedMessage EXCEPT !.currentText = incomingText,
                          !.lastUpdateTime = now,
                          !.updateCount = cachedMessage.updateCount + 1,
                          !.isActive = TRUE]

\* a setEx that keeps every text under a key of its own
setExByText(R, cacheKey, m) ==
    ((cacheKey \o <<"#">> \o m.currentText) :>
         [val |-> m, expireAt |-> now + CacheTTL]) @@ R

\* client.setEx(cacheKey, 30, JSON.stringify(m)) on keyspace R
setEx(R, cacheKey, m) ==
    (cacheKey :> [val |-> m, expireAt |-> now + CacheTTL]) @@ R

\* a del that removes nothing
keepKey(R, cacheKey) == R

\* client.del(cacheKey) on keyspace R
del(R, cacheKey) == [x \in DOMAIN R \ {cacheKey} |-> R[x]]

(***************************************************************************)
(* The timers.  T is [timers, map]: the armed timers and messageTimeouts.  *)
(***************************************************************************)
\* setMessageTimeout: arms a timer and stores its handle; the handle the
\* map held before is overwritten, its timer stays armed
setMessageTimeout(T, key, id, entry) ==
    [timers |-> T.timers \cup
                  {[id |-> id, key |-> key, fireAt |-> now + TimeoutSeconds,
                    entry |-> entry]},
     map |-> (timeoutKey(key[1], key[2], key[3]) :> id) @@ T.map]

\* clearMessageTimeout: cancels the timer whose handle the map holds
clearMessageTimeout(T, key) ==
    LET tk == timeoutKey(key[1], key[2], key[3])
    IN  IF tk \in DOMAIN T.map
        THEN [timers |-> {t \in T.timers : t.id # T.map[tk]},
              map |-> [x \in DOMAIN T.map \ {tk} |-> T.map[x]]]
        ELSE T

\* resetMessageTimeout
resetMessageTimeout(T, key, id, entry) ==
    setMessageTimeout(clearMessageTimeout(T, key), key, id, entry)

TimerState == [timers |-> timers, map |-> messageTimeouts]

(***************************************************************************)
(* saveCachedMessageToDB(cachedMessage): the document built from the       *)
(* cached message, and the collection after textInput.save().  The save    *)
(* fails when the store does (ok = FALSE), when the pre-save hook finds    *)
(* the text blank and when the unique index on id finds the id taken; the  *)
(* catch logs the error and the function returns as after a success.  The  *)
(* schema gives the document keyboardInputEN '' and an empty               *)
(* keyboardInputHistory.                                                   *)
(***************************************************************************)
textInputData(cachedMessage) ==
    [id |-> recordId(cachedMessage),
     timestamp |-> cachedMessage.startTime,
     packageName |-> cachedMessage.packageName,
     deviceId |-> cachedMessage.deviceId,
     keyboardInput |-> cachedMessage.currentText,
     viewId |-> cachedMessage.viewId,
     inputType |-> "complete_message",
     keyboardInputEN |-> <<>>,
     keyboardInputHistory |-> <<>>]

saveSucceeds(D, cachedMessage, ok) ==
    /\ ok
    /\ trim(cachedMessage.currentText) # <<>>
    /\ \A r \in D : r.id # recordId(cachedMessage)

saveCachedMessageToDB(D, cachedMessage, ok) ==
    IF saveSucceeds(D, cachedMessage, ok)
    THEN D \cup {textInputData(cachedMessage)}
    ELSE D

(***************************************************************************)
(* The calls in flight.  A call is a record                                *)
(*   id, kind ("ingest", "timer", "all"), key, text, pc,                   *)
(*   msg      the cachedMessage it read                                    *)
(*   out      the message it is about to write                             *)
(*   todo     completeAll: the keys still to visit; cur: the key at hand   *)
(* and, as history, saveOk (whether its last save stored the document),    *)
(* failed (a save of the call stored nothing), entry (timer callback: the  *)
(* startTime of the entry its timer was armed for), snap (completeAll:     *)
(* the entries in the keyspace when it was called) and overlap             *)
(* (completeAll: an ingest was in flight during the call).                 *)
(***************************************************************************)
Proc(id, kind, key, text, pc, msg, out) ==
    [id |-> id, kind |-> kind, key |-> key, text |-> text, pc |-> pc,
     msg |-> msg, out |-> out, saveOk |-> FALSE, failed |-> FALSE,
     entry |-> <<0, 0>>, todo |-> {}, cur |-> <<>>, snap |-> {},
     overlap |-> FALSE]

InFlight == Cardinality(procs)

\* the calls in flight once an ingest has joined them
WithIngest(P) ==
    {IF p.kind = "all" THEN [p EXCEPT !.overlap = TRUE] ELSE p : p \in P}

cacheKeyOf(p) == getCacheKey(p.key[1], p.key[2], p.key[3])

Entry(m, cause) ==
    [id |-> recordId(m), key |-> <<m.deviceId, m.packageName, m.viewId>>,
     text |-> m.currentText, cause |-> cause]

\* the entry a write of message m to cacheKey replaces, if it is another one
Overwritten(cacheKey, m) ==
    IF cacheKey \in DOMAIN redis /\ recordId(redis[cacheKey].val) # recordId(m)
    THEN {Entry(redis[cacheKey].val, "overwritten")}
    ELSE {}

\* the entry a del of cacheKey removes
Deleted(cacheKey) ==
    IF cacheKey \in DOMAIN redis
    THEN {Entry(redis[cacheKey].val, "del")}
    ELSE {}

\* what checkAndUpdateMessage returns, with the history of its flush
Result(p, isPartOfExisting, cachedMessage, shouldUpdate) ==
    [call |-> p.id, key |-> p.key, text |-> p.text,
     isPartOfExisting |-> isPartOfExisting, cachedMessage |-> cachedMessage,
     shouldUpdate |-> shouldUpdate, flushed |-> p.msg, saveOk |-> p.saveOk]

\* CacheService after its constructor and connect()
CacheInit ==
    /\ now = 0
    /\ isConnected = TRUE
    /\ redis = <<>>
    /\ timers = {}
    /\ messageTimeouts = <<>>
    /\ procs = {}
    /\ db = {}
    /\ nIngest = 0
    /\ nAll = 0
    /\ nFail = 0
    /\ log = {}
    /\ allLog = {}
    /\ gone = {}

\* ChatGPTTranslationService after its constructor, with the keys given
TranslationInit(groq, openai) ==
    /\ groqKey = groq
    /\ openaiKey = openai
    /\ cache = <<>>
    /\ calls = {}
    /\ returns = {}
    /\ nTranslate = 0

\* the route with no request in flight
RouteInit ==
    /\ direct = {}
    /\ replies = {}

Init == CacheInit /\ TranslationInit(TRUE, TRUE) /\ RouteInit

(***************************************************************************)
(* checkAndUpdateMessage, up to its second await: the connection check,    *)
(* client.get and the choice between a new message, a continuation and a   *)
(* different message.                                                      *)
(***************************************************************************)
CheckAndUpdateMessage(key, incomingText) ==
    /\ nIngest < MaxIngest
    /\ InFlight < MaxInFlight
    /\ nIngest' = nIngest + 1
    /\ LET cacheKey == getCacheKey(key[1], key[2], key[3])
           call(pc, msg, out) ==
               Proc(nIngest + 1, "ingest", key, incomingText, pc, msg, out)
       IN  IF ~isConnected
           THEN /\ log' = log \cup {Result(call("done", NoMsg, NoMsg),
                                             FALSE, NoMsg, FALSE)}
                /\ UNCHANGED procs
           ELSE IF cacheKey \notin DOMAIN redis
           THEN /\ procs' = WithIngest(procs) \cup
                        {call("setNew", NoMsg,
                              messageData(key[1], key[2], key[3], incomingText,
                                          nIngest + 1))}
                /\ UNCHANGED log
           ELSE LET cachedMessage == redis[cacheKey].val
                IN  /\ procs' = WithIngest(procs) \cup
                          {IF isTextPartOfMessage(cachedMessage.currentText,
                                                  incomingText)
                           THEN call("setCont", cachedMessage,
                                     updatedMessage(cachedMessage, incomingText))
                           ELSE call("save", cachedMessage, NoMsg)}
                    /\ UNCHANGED log
    /\ UNCHANGED <<now, isConnected, redis, timers, messageTimeouts, db,
                   nAll, nFail, allLog, gone>>
    /\ UNCHANGED <<trVars, routeVars>>

\* new message: setEx, setMessageTimeout, return
IngestSetNew(p) ==
    /\ p.kind = "ingest" /\ p.pc = "setNew"
    /\ redis' = setEx(redis, cacheKeyOf(p), p.out)
    /\ gone' = gone \cup Overwritten(cacheKeyOf(p), p.out)
    /\ LET T == setMessageTimeout(TimerState, p.key, p.id, p.out.startTime)
       IN  timers' = T.timers /\ messageTimeouts' = T.map
    /\ log' = log \cup {Result(p, FALSE, p.out, FALSE)}
    /\ procs' = procs \ {p}
    /\ UNCHANGED <<now, isConnected, db, nIngest, nAll, nFail, allLog>>
    /\ UNCHANGED <<trVars, routeVars>>

\* continuation: setEx, resetMessageTimeout, return
IngestSetCont(p) ==
    /\ p.kind = "ingest" /\ p.pc = "setCont"
    /\ redis' = setEx(redis, cacheKeyOf(p), p.out)
    /\ gone' = gone \cup Overwritten(cacheKeyOf(p), p.out)
    /\ LET T == resetMessageTimeout(TimerState, p.key, p.id, p.out.startTime)
       IN  timers' = T.timers /\ messageTimeouts' = T.map
    /\ log' = log \cup {Result(p, TRUE, p.out, FALSE)}
    /\ procs' = procs \ {p}
    /\ UNCHANGED <<now, isConnected, db, nIngest, nAll, nFail, allLog>>
    /\ UNCHANGED <<trVars, routeVars>>

\* different message: saveCachedMessageToDB, clearMessageTimeout,
\* newMessageData
IngestSave(p, ok) ==
    /\ p.kind = "ingest" /\ p.pc = "save"
    /\ ok \/ nFail < MaxSaveFailures
    /\ nFail' = IF ok THEN nFail ELSE nFail + 1
    /\ db' = saveCachedMessageToDB(db, p.msg, ok)
    /\ LET T == clearMessageTimeout(TimerState, p.key)
       IN  timers' = T.timers /\ messageTimeouts' = T.map
    /\ procs' = (procs \ {p}) \cup
           {[p EXCEPT !.pc = "setDiv",
                      !.saveOk = saveSucceeds(db, p.msg, ok),
                      !.failed = p.failed \/ ~saveSucceeds(db, p.msg, ok),
                      !.out = messageData(p.key[1], p.key[2], p.key[3], p.text,
                                         p.id)]}
    /\ UNCHANGED <<now, isConnected, redis, nIngest, nAll, log, allLog,
                   gone>>
    /\ UNCHANGED <<trVars, routeVars>>

\* different message: setEx of the new message, setMessageTimeout, return
IngestSetDiv(p) ==
    /\ p.kind = "ingest" /\ p.pc = "setDiv"
    /\ redis' = setEx(redis, cacheKeyOf(p), p.out)
    /\ gone' = gone \cup Overwritten(cacheKeyOf(p), p.out)
    /\ LET T == setMessageTimeout(TimerState, p.key, p.id, p.out.startTime)
       IN  timers' = T.timers /\ messageTimeouts' = T.map
    /\ log' = log \cup {Result(p, FALSE, p.out, TRUE)}
    /\ procs' = procs \ {p}
    /\ UNCHANGED <<now, isConnected, db, nIngest, nAll, nFail, allLog>>
    /\ UNCHANGED <<trVars, routeVars>>

(***************************************************************************)
(* The timer callback: completeMessage.                                    *)
(***************************************************************************)
\* the timer fires: the connection check and client.get
TimerFire(t) ==
    /\ t \in timers
    /\ now >= t.fireAt
    /\ InFlight < MaxInFlight
    /\ timers' = timers \ {t}
    /\ LET cacheKey == getCacheKey(t.key[1], t.key[2], t.key[3])
       IN  IF isConnected /\ cacheKey \in DOMAIN redis
           THEN procs' = procs \cup
                    {[Proc(t.id, "timer", t.key, <<>>, "save",
                           redis[cacheKey].val, NoMsg)
                        EXCEPT !.entry = t.entry]}
           ELSE UNCHANGED procs
    /\ UNCHANGED <<now, isConnected, redis, messageTimeouts, db, nIngest,
                   nAll, nFail, log, allLog, gone>>
    /\ UNCHANGED <<trVars, routeVars>>

\* saveCachedMessageToDB
CompleteSave(p, ok) ==
    /\ p.kind = "timer" /\ p.pc = "save"
    /\ ok \/ nFail < MaxSaveFailures
    /\ nFail' = IF ok THEN nFail ELSE nFail + 1
    /\ db' = saveCachedMessageToDB(db, p.msg, ok)
    /\ procs' = (procs \ {p}) \cup
           {[p EXCEPT !.pc = "del", !.saveOk = saveSucceeds(db, p.msg, ok),
                      !.failed = p.failed \/ ~saveSucceeds(db, p.msg, ok)]}
    /\ UNCHANGED <<now, isConnected, redis, timers, messageTimeouts,
                   nIngest, nAll, log, allLog, gone>>
    /\ UNCHANGED <<trVars, routeVars>>

\* client.del, clearMessageTimeout
CompleteDel(p) ==
    /\ p.kind = "timer" /\ p.pc = "del"
    /\ redis' = del(redis, cacheKeyOf(p))
    /\ gone' = gone \cup Deleted(cacheKeyOf(p))
    /\ LET T == clearMessageTimeout(TimerState, p.key)
       IN  timers' = T.timers /\ messageTimeouts' = T.map
    /\ procs' = procs \ {p}
    /\ UNCHANGED <<now, isConnected, db, nIngest, nAll, nFail,
                   log, allLog>>
    /\ UNCHANGED <<trVars, routeVars>>

(***************************************************************************)
(* completeAllPendingMessages.                                             *)
(***************************************************************************)
\* client.keys('pending_message:*')
CompleteAllKeys ==
    /\ nAll < MaxAll
    /\ InFlight < MaxInFlight
    /\ nAll' = nAll + 1
    /\ IF isConnected
       THEN procs' = procs \cup
                  {[Proc(nAll + 1, "all", <<>>, <<>>, "get", NoMsg, NoMsg)
                      EXCEPT !.todo = DOMAIN redis,
                             !.snap = {Entry(redis[k].val, "all") : k \in DOMAIN redis},
                             !.overlap = \E q \in procs : q.kind = "ingest"]}
       ELSE UNCHANGED procs
    /\ UNCHANGED <<now, isConnected, redis, timers, messageTimeouts, db,
                   nIngest, nFail, log, allLog, gone>>
    /\ UNCHANGED <<trVars, routeVars>>

\* the loop: client.get of the next key
CompleteAllGet(p, k) ==
    /\ p.kind = "all" /\ p.pc = "get"
    /\ k \in p.todo
    /\ procs' = (procs \ {p}) \cup
           {IF k \in DOMAIN redis
            THEN [p EXCEPT !.todo = p.todo \ {k}, !.cur = k,
                           !.msg = redis[k].val, !.pc = "save"]
            ELSE [p EXCEPT !.todo = p.todo \ {k}]}
    /\ UNCHANGED <<now, isConnected, redis, timers, messageTimeouts, db,
                   nIngest, nAll, nFail, log, allLog, gone>>
    /\ UNCHANGED <<trVars, routeVars>>

\* saveCachedMessageToDB
CompleteAllSave(p, ok) ==
    /\ p.kind = "all" /\ p.pc = "save"
    /\ ok \/ nFail < MaxSaveFailures
    /\ nFail' = IF ok THEN nFail ELSE nFail + 1
    /\ db' = saveCachedMessageToDB(db, p.msg, ok)
    /\ procs' = (procs \ {p}) \cup
           {[p EXCEPT !.pc = "del", !.saveOk = saveSucceeds(db, p.msg, ok),
                      !.failed = p.failed \/ ~saveSucceeds(db, p.msg, ok)]}
    /\ UNCHANGED <<now, isConnected, redis, timers, messageTimeouts,
                   nIngest, nAll, log, allLog, gone>>
    /\ UNCHANGED <<trVars, routeVars>>

\* client.del
CompleteAllDel(p) ==
    /\ p.kind = "all" /\ p.pc = "del"
    /\ redis' = del(redis, p.cur)
    /\ gone' = gone \cup Deleted(p.cur)
    /\ procs' = (procs \ {p}) \cup {[p EXCEPT !.pc = "get"]}
    /\ UNCHANGED <<now, isConnected, timers, messageTimeouts, db, nIngest,
                   nAll, nFail, log, allLog>>
    /\ UNCHANGED <<trVars, routeVars>>

\* key.split(':')
RECURSIVE split(_, _)
split(s, separator) ==
    IF \A i \in 1..Len(s) : s[i] # separator THEN <<s>>
    ELSE LET i == CHOOSE k \in 1..Len(s) :
                      s[k] = separator /\ \A m \in 1..(k - 1) : s[m] # separator
         IN  <<SubSeq(s, 1, i - 1)>> \o split(SubSeq(s, i + 1, Len(s)), separator)

\* the loop of getCacheStats over keys: parts[1] of every key of four
\* parts or more gets the number of such keys that have it
deviceStats(keys) ==
    LET counted == {key \in keys : Len(split(key, ":")) >= 4}
    IN  [deviceId \in {split(key, ":")[2] : key \in counted} |->
            Cardinality({key \in counted : split(key, ":")[2] = deviceId})]

\* getCacheStats: the pending-message count and the counts by device
getCacheStats ==
    IF ~isConnected
    THEN [connected |-> FALSE, pendingMessages |-> 0, deviceStats |-> <<>>]
    ELSE [connected |-> TRUE, pendingMessages |-> Cardinality(DOMAIN redis),
          deviceStats |-> deviceStats(DOMAIN redis)]

\* the loop has ended: the call returns (and the caller reads the stats)
CompleteAllReturn(p) ==
    /\ p.kind = "all" /\ p.pc = "get" /\ p.todo = {}
    /\ allLog' = allLog \cup
           {[snap |-> p.snap, overlap |-> p.overlap, failed |-> p.failed,
             pendingMessages |-> getCacheStats.pendingMessages]}
    /\ procs' = procs \ {p}
    /\ UNCHANGED <<now, isConnected, redis, timers, messageTimeouts, db,
                   nIngest, nAll, nFail, log, gone>>
    /\ UNCHANGED <<trVars, routeVars>>

(***************************************************************************)
(* The environment: Redis expires a key whose TTL has run out, and the     *)
(* clock moves on once every expiry and every timer that is due has        *)
(* happened.  A key set and a timer armed in the same second fall due in   *)
(* the same second, in either order.                                       *)
(***************************************************************************)
Expire(cacheKey) ==
    /\ cacheKey \in DOMAIN redis
    /\ redis[cacheKey].expireAt <= now
    /\ redis' = del(redis, cacheKey)
    /\ gone' = gone \cup {Entry(redis[cacheKey].val, "expired")}
    /\ UNCHANGED <<now, isConnected, timers, messageTimeouts, procs, db,
                   nIngest, nAll, nFail, log, allLog>>
    /\ UNCHANGED <<trVars, routeVars>>

Tick ==
    /\ now + TickSeconds <= MaxTicks * TickSeconds
    /\ \A k \in DOMAIN redis : redis[k].expireAt > now
    /\ \A t \in timers : t.fireAt > now
    /\ procs = {}
    /\ now' = now + TickSeconds
    /\ UNCHANGED <<isConnected, redis, timers, messageTimeouts, procs, db,
                   nIngest, nAll, nFail, log, allLog, gone>>
    /\ UNCHANGED <<trVars, routeVars>>

\* what the calls in flight and the environment go on to do
Continue ==
    \/ \E p \in procs : IngestSetNew(p)
    \/ \E p \in procs : IngestSetCont(p)
    \/ \E p \in procs, ok \in BOOLEAN : IngestSave(p, ok)
    \/ \E p \in procs : IngestSetDiv(p)
    \/ \E p \in procs, ok \in BOOLEAN : CompleteSave(p, ok)
    \/ \E p \in procs : CompleteDel(p)
    \/ \E p \in procs : \E k \in p.todo : CompleteAllGet(p, k)
    \/ \E p \in procs, ok \in BOOLEAN : CompleteAllSave(p, ok)
    \/ \E p \in procs : CompleteAllDel(p)
    \/ \E p \in procs : CompleteAllReturn(p)
    \/ \E cacheKey \in DOMAIN redis : Expire(cacheKey)
    \/ Tick

\* the above, the timers that fire and the cleanup that starts
Step ==
    \/ \E t \in timers : TimerFire(t)
    \/ CompleteAllKeys
    \/ Continue

\* one key, MaxIngest partial inputs
Next ==
    \/ \E incomingText \in Texts : CheckAndUpdateMessage(Key1, incomingText)
    \/ Step

Spec == Init /\ [][Next]_vars

\* several keys, MaxIngestKeys partial inputs
NextKeys ==
    \/ \E key \in Keys, incomingText \in Texts :
           nIngest < MaxIngestKeys /\ CheckAndUpdateMessage(key, incomingText)
    \/ Step

SpecKeys == Init /\ [][NextKeys]_vars

\* one key, the calls and the timer callbacks one at a time: none starts
\* while another is in flight
NextSeq ==
    \/ \E incomingText \in Texts :
           procs = {} /\ CheckAndUpdateMessage(Key1, incomingText)
    \/ \E t \in timers : procs = {} /\ TimerFire(t)
    \/ procs = {} /\ CompleteAllKeys
    \/ Continue

SpecSeq == Init /\ [][NextSeq]_vars

(***************************************************************************)
(* Two keys whose components hold the separator of getCacheKey: package    *)
(* p with view q:v, and package p:q with view v, on one device.  The       *)
(* calls and the timer callbacks run one at a time.                        *)
(***************************************************************************)
KeyPQV == << <<"d">>, <<"p">>, <<"q", ":", "v">> >>

KeyPQ_V == << <<"d">>, <<"p", ":", "q">>, <<"v">> >>

SeparatorKeys == {KeyPQV, KeyPQ_V}

NextSeparator ==
    \/ \E key \in SeparatorKeys, incomingText \in Texts :
           procs = {} /\ CheckAndUpdateMessage(key, incomingText)
    \/ \E t \in timers : procs = {} /\ TimerFire(t)
    \/ \E p \in procs : IngestSetNew(p)
    \/ \E p \in procs : IngestSetCont(p)
    \/ \E p \in procs, ok \in BOOLEAN : IngestSave(p, ok)
    \/ \E p \in procs : IngestSetDiv(p)
    \/ \E p \in procs, ok \in BOOLEAN : CompleteSave(p, ok)
    \/ \E p \in procs : CompleteDel(p)
    \/ \E cacheKey \in DOMAIN redis : Expire(cacheKey)
    \/ Tick

SpecSeparator == Init /\ [][NextSeparator]_vars

(***************************************************************************)
(* Three devices, one of them with an id that holds the separator (the     *)
(* form of a hardware address), the calls and the timer callbacks one at   *)
(* a time.                                                                 *)
(***************************************************************************)
KeyAddress == << <<"d", ":", "2">>, <<"p">>, <<"v">> >>

StatsKeys == {Key1, Key2, KeyAddress}

NextStats ==
    \/ \E key \in StatsKeys, incomingText \in Texts :
           procs = {} /\ CheckAndUpdateMessage(key, incomingText)
    \/ \E t \in timers : procs = {} /\ TimerFire(t)
    \/ \E p \in procs : IngestSetNew(p)
    \/ \E p \in procs : IngestSetCont(p)
    \/ \E p \in procs, ok \in BOOLEAN : IngestSave(p, ok)
    \/ \E p \in procs : IngestSetDiv(p)
    \/ \E p \in procs, ok \in BOOLEAN : CompleteSave(p, ok)
    \/ \E p \in procs : CompleteDel(p)
    \/ \E cacheKey \in DOMAIN redis : Expire(cacheKey)
    \/ Tick

SpecStats == Init /\ [][NextStats]_vars

(***************************************************************************)
(* The matcher at work: partial inputs on one key, one call at a time,     *)
(* with texts that grow, shrink, differ in one or more characters, in      *)
(* case and in surrounding blanks.                                         *)
(***************************************************************************)
MatchTexts ==
    UNION {[1..n -> {"h", "e"}] : n \in 1..MaxMatchLen}
      \cup { <<"H">>, <<"H", "E">>, <<" ">>, <<" ", "h">>, <<"h", " ">>,
             <<"h", " ", "e">>, <<"H", "e", "h", "e", "h", "x">>,
             <<"h", "e", "h", "e", "h", "y">> }

NextMatcher ==
    \/ \E incomingText \in MatchTexts :
           /\ procs = {} /\ nIngest < MaxMatchIngest
           /\ CheckAndUpdateMessage(Key1, incomingText)
    \/ \E p \in procs : IngestSetNew(p)
    \/ \E p \in procs : IngestSetCont(p)
    \/ \E p \in procs, ok \in BOOLEAN : IngestSave(p, ok)
    \/ \E p \in procs : IngestSetDiv(p)

SpecMatcher == Init /\ [][NextMatcher]_vars

(***************************************************************************)
(* The connection to Redis.  The client's 'error' and 'end' events clear   *)
(* isConnected and its 'connect' event sets it.  A command issued while    *)
(* the client is not connected waits for the connection or rejects; when   *)
(* it rejects, the catch of the function logs the error and the function   *)
(* returns: checkAndUpdateMessage the result it also returns when it finds *)
(* the client not connected, completeMessage and                           *)
(* completeAllPendingMessages nothing.  The route answers that result      *)
(* with 200 'New message cached' and stores nothing.                       *)
(***************************************************************************)
\* client.on('error') / client.on('end')
ClientEnd ==
    /\ isConnected
    /\ isConnected' = FALSE
    /\ UNCHANGED <<now, redis, timers, messageTimeouts, procs, db, nIngest,
                   nAll, nFail, log, allLog, gone>>
    /\ UNCHANGED <<trVars, routeVars>>

\* client.on('connect')
ClientConnect ==
    /\ ~isConnected
    /\ isConnected' = TRUE
    /\ UNCHANGED <<now, redis, timers, messageTimeouts, procs, db, nIngest,
                   nAll, nFail, log, allLog, gone>>
    /\ UNCHANGED <<trVars, routeVars>>

\* the call p is at a command to Redis
AtCommand(p) == p.pc \in {"setNew", "setCont", "setDiv", "del", "get"}

\* the command of call p rejects: the catch of its function
Throws(p) ==
    /\ ~isConnected
    /\ p.kind \in {"ingest", "timer", "all"}
    /\ AtCommand(p)
    /\ log' = IF p.kind = "ingest"
              THEN log \cup {Result(p, FALSE, NoMsg, FALSE)}
              ELSE log
    /\ allLog' = IF p.kind = "all"
                 THEN allLog \cup
                        {[snap |-> p.snap, overlap |-> p.overlap,
                          failed |-> p.failed,
                          pendingMessages |-> getCacheStats.pendingMessages]}
                 ELSE allLog
    /\ procs' = procs \ {p}
    /\ UNCHANGED <<now, isConnected, redis, timers, messageTimeouts, db,
                   nIngest, nAll, nFail, gone>>
    /\ UNCHANGED <<trVars, routeVars>>

\* the steps of the calls in flight that are commands to Redis
Commands ==
    \/ \E p \in procs : IngestSetNew(p)
    \/ \E p \in procs : IngestSetCont(p)
    \/ \E p \in procs : IngestSetDiv(p)
    \/ \E p \in procs : CompleteDel(p)
    \/ \E p \in procs : \E k \in p.todo : CompleteAllGet(p, k)
    \/ \E p \in procs : CompleteAllDel(p)

\* their other steps, and the environment
Others ==
    \/ \E p \in procs, ok \in BOOLEAN : IngestSave(p, ok)
    \/ \E p \in procs, ok \in BOOLEAN : CompleteSave(p, ok)
    \/ \E p \in procs, ok \in BOOLEAN : CompleteAllSave(p, ok)
    \/ \E p \in procs : CompleteAllReturn(p)
    \/ \E cacheKey \in DOMAIN redis : Expire(cacheKey)
    \/ Tick

\* one key, the calls one at a time, the connection coming and going
NextOutage ==
    \/ \E incomingText \in Texts :
           procs = {} /\ CheckAndUpdateMessage(Key1, incomingText)
    \/ \E t \in timers : procs = {} /\ TimerFire(t)
    \/ procs = {} /\ CompleteAllKeys
    \/ isConnected /\ Commands
    \/ Others
    \/ ClientEnd
    \/ ClientConnect
    \/ \E p \in procs : Throws(p)

SpecOutage == Init /\ [][NextOutage]_vars

(***************************************************************************)
(* Shutdown (services/deviceService.js): the handler of SIGINT and of      *)
(* SIGTERM.  It stops the keep-alive service, awaits                       *)
(* completeAllPendingMessages, awaits disconnect, awaits                   *)
(* mongoose.connection.close() and calls process.exit(0).  The handler in  *)
(* flight is a call of kind "signal"; its snap is the entries in the       *)
(* keyspace when the signal arrived.  The HTTP server is not closed:       *)
(* inputs are served until the process exits.                              *)
(***************************************************************************)
Signalled == \E s \in procs : s.kind = "signal"

Exited == \E s \in procs : s.kind = "signal" /\ s.pc = "exited"

\* no call but the handler is in flight
Idle == \A p \in procs : p.kind = "signal"

\* the signal arrives: the handler calls completeAllPendingMessages, which
\* checks the connection and asks for the keys
Signal ==
    /\ ~Signalled
    /\ nAll < MaxAll
    /\ InFlight < MaxInFlight
    /\ nAll' = nAll + 1
    /\ procs' = procs
         \cup {[Proc(0, "signal", <<>>, <<>>, "flush", NoMsg, NoMsg)
                  EXCEPT !.snap = {Entry(redis[k].val, "signal") :
                                       k \in DOMAIN redis}]}
         \cup (IF isConnected
               THEN {[Proc(nAll + 1, "all", <<>>, <<>>, "get", NoMsg, NoMsg)
                        EXCEPT !.todo = DOMAIN redis,
                               !.snap = {Entry(redis[k].val, "all") :
                                             k \in DOMAIN redis},
                               !.overlap = \E q \in procs : q.kind = "ingest"]}
               ELSE {})
    /\ UNCHANGED <<now, isConnected, redis, timers, messageTimeouts, db,
                   nIngest, nFail, log, allLog, gone>>
    /\ UNCHANGED <<trVars, routeVars>>

\* completeAllPendingMessages has returned: cacheService.disconnect()
\* calls client.quit() when the client is connected
SignalQuit(s) ==
    /\ s.kind = "signal" /\ s.pc = "flush"
    /\ \A p \in procs : p.kind # "all"
    /\ procs' = (procs \ {s}) \cup
           {[s EXCEPT !.pc = IF isConnected THEN "quit" ELSE "close"]}
    /\ UNCHANGED <<now, isConnected, redis, timers, messageTimeouts, db,
                   nIngest, nAll, nFail, log, allLog, gone>>
    /\ UNCHANGED <<trVars, routeVars>>

\* client.quit() has resolved: this.isConnected = false
SignalQuitted(s) ==
    /\ s.kind = "signal" /\ s.pc = "quit"
    /\ isConnected' = FALSE
    /\ procs' = (procs \ {s}) \cup {[s EXCEPT !.pc = "close"]}
    /\ UNCHANGED <<now, redis, timers, messageTimeouts, db, nIngest, nAll,
                   nFail, log, allLog, gone>>
    /\ UNCHANGED <<trVars, routeVars>>

\* mongoose.connection.close()
SignalClose(s) ==
    /\ s.kind = "signal" /\ s.pc = "close"
    /\ procs' = (procs \ {s}) \cup {[s EXCEPT !.pc = "exit"]}
    /\ UNCHANGED <<now, isConnected, redis, timers, messageTimeouts, db,
                   nIngest, nAll, nFail, log, allLog, gone>>
    /\ UNCHANGED <<trVars, routeVars>>

\* process.exit(0): the calls in flight and the timers are gone with the
\* process, the keys stay in Redis until they expire
SignalExit(s) ==
    /\ s.kind = "signal" /\ s.pc = "exit"
    /\ procs' = {[s EXCEPT !.pc = "exited"]}
    /\ timers' = {}
    /\ messageTimeouts' = <<>>
    /\ UNCHANGED <<now, isConnected, redis, db, nIngest, nAll, nFail, log,
                   allLog, gone>>
    /\ UNCHANGED <<trVars, routeVars>>

\* one key, inputs and timer callbacks one at a time, and a signal
NextShutdown ==
    \/ \E incomingText \in Texts :
           /\ Idle /\ ~Exited
           /\ CheckAndUpdateMessage(Key1, incomingText)
    \/ \E t \in timers : Idle /\ TimerFire(t)
    \/ Signal
    \/ \E s \in procs : SignalQuit(s)
    \/ \E s \in procs : SignalQuitted(s)
    \/ \E s \in procs : SignalClose(s)
    \/ \E s \in procs : SignalExit(s)
    \/ isConnected /\ Commands
    \/ Others
    \/ \E p \in procs : Throws(p)

SpecShutdown == Init /\ [][NextShutdown]_vars

(***************************************************************************)
(* ChatGPTTranslationService (services/translationService.js).             *)
(* A text and a translation are sequences of characters; the other JS      *)
(* values are strings, "undefined" for undefined.                          *)
(***************************************************************************)
\* this.cacheTimeout = 24 * 60 * 60 * 1000 ms, in seconds
cacheTimeout == 24 * 60 * 60

\* for (attemptNum = 0; attemptNum < 3; ...): attempts on a GROQ model
GroqAttempts == 3
\* for (attemptNum = 0; attemptNum < 2; ...): attempts on an OpenAI model
OpenaiAttempts == 2

groqModels == <<"llama-3.1-8b-instant", "llama-3.1-70b-versatile",
                "mixtral-8x7b-32768">>

openaiModels == <<"gpt-4o-mini", "gpt-3.5-turbo">>

\* the texts given to translateText, and its targetLanguage
TrTexts == { <<>>, <<" ">>, <<"a">> }

English == <<"E", "n", "g", "l", "i", "s", "h">>

\* the JS value undefined where a translation is expected
Undefined == <<"undefined">>

\* `${text}_${targetLanguage}`
trCacheKey(text, targetLanguage) == text \o <<"_">> \o targetLanguage

(***************************************************************************)
(* The content of a provider's answer (choices[0].message.content,         *)
(* trimmed), by what JSON.parse makes of it:                               *)
(*   "object"  the JSON object asked for                                   *)
(*   "string"  a JSON string literal, raw between double quotes            *)
(*   "null"    the JSON literal null                                       *)
(*   "text"    no JSON: the raw text                                       *)
(***************************************************************************)
Content(kind, raw, originalLanguage, isEnglish, translation) ==
    [kind |-> kind, raw |-> raw, originalLanguage |-> originalLanguage,
     isEnglish |-> isEnglish, translation |-> translation]

ALREADY_IN_ENGLISH == <<"ALREADY_IN_ENGLISH">>

\* the answers a provider may give
Contents ==
    { Content("object", <<>>, "French", "false", <<"h", "i">>),
      Content("text", <<"h", "o">>, "undefined", "undefined", Undefined),
      Content("text", ALREADY_IN_ENGLISH, "undefined", "undefined", Undefined),
      Content("null", <<>>, "undefined", "undefined", Undefined) }

\* return '"ALREADY_IN_ENGLISH"': the word between double quotes
finalFallback ==
    Content("string", ALREADY_IN_ENGLISH, "undefined", "undefined", Undefined)

(***************************************************************************)
(* translateText, lines 57-93: what it makes of the content.  JSON.parse   *)
(* throws on a text, which then is the translation; the content            *)
(* ALREADY_IN_ENGLISH (without quotes) stands for the input text; the      *)
(* properties translation, originalLanguage and isEnglish are read off     *)
(* the result: undefined on a string, a TypeError on null.                 *)
(***************************************************************************)
parseContent(content, text) ==
    LET parsed ==
            IF content.kind = "text"
            THEN [kind |-> "object", originalLanguage |-> "Unknown",
                  isEnglish |-> "false", translation |-> content.raw]
            ELSE [kind |-> content.kind,
                  originalLanguage |-> content.originalLanguage,
                  isEnglish |-> content.isEnglish,
                  translation |-> content.translation]
        result ==
            IF content.kind = "text" /\ content.raw = ALREADY_IN_ENGLISH
            THEN [kind |-> "object", originalLanguage |-> "English",
                  isEnglish |-> "true", translation |-> text]
            ELSE parsed
    IN  IF result.kind = "null"
        THEN [threw |-> TRUE, translation |-> Undefined,
              originalLanguage |-> "undefined", isEnglish |-> "undefined"]
        ELSE IF result.kind = "string"
        THEN [threw |-> FALSE, translation |-> Undefined,
              originalLanguage |-> "undefined", isEnglish |-> "undefined"]
        ELSE [threw |-> FALSE, translation |-> result.translation,
              originalLanguage |-> result.originalLanguage,
              isEnglish |-> result.isEnglish]

\* what translateText returns
TrResult(success, translation, originalLanguage, isEnglish, cached, skipped, error) ==
    [success |-> success, translation |-> translation,
     originalLanguage |-> originalLanguage, isEnglish |-> isEnglish,
     cached |-> cached, skipped |-> skipped, error |-> error]

(***************************************************************************)
(* The failures of axios.post / attempt: the HTTP status (0 when there is  *)
(* no response: a timeout, or a body without choices[0].message.content,   *)
(* on which attempt throws a TypeError) and the error message.             *)
(***************************************************************************)
Failure(status, msg) == [status |-> status, msg |-> msg]

NoFailure == Failure(0, "")

Failures ==
    { Failure(503, "Service Unavailable"),
      Failure(429, "Rate limit reached for model"),
      Failure(498, "The model is over capacity"),
      Failure(400, "Invalid request"),
      Failure(0, "timeout of 30000ms exceeded"),
      Failure(0, "Cannot read properties of undefined") }

\* /over capacity/i.test(msg)
overCapacityTest(msg) == msg \in {"The model is over capacity"}

\* /rate limit/i.test(msg)
rateLimitTest(msg) == msg \in {"Rate limit reached for model"}

\* a catch that retries after every failure
retriesAlways(e) == TRUE

\* the catch of the GROQ loop: backoff and retry?
groqRetries(e) ==
    e.status >= 500 \/ overCapacityTest(e.msg) \/ rateLimitTest(e.msg)

\* the catch of the OpenAI loop: backoff and retry?
openaiRetries(e) == e.status >= 500

(***************************************************************************)
(* A translateText call in flight: at pc "post" it awaits axios.post of    *)
(* model i (of groqModels when useGroq, else of openaiModels), attempt     *)
(* attemptNum; at pc "sleep" it awaits the backoff after failure last.     *)
(***************************************************************************)
Call(id, text, targetLanguage, useGroq, i, attemptNum) ==
    [id |-> id, text |-> text, targetLanguage |-> targetLanguage,
     useGroq |-> useGroq, i |-> i, attemptNum |-> attemptNum, pc |-> "post",
     last |-> NoFailure, startedAt |-> now,
     after |-> {r.call : r \in returns}]

\* what a call returned, with its history: whether it issued a request
\* (network), whether its content was the final fallback, when it started
\* and returned, the calls that had returned when it started (after), and
\* whether no other call on its cache key was in flight when it returned
\* (alone)
Return(id, text, targetLanguage, startedAt, after, result, network, fallback) ==
    [call |-> id, text |-> text, targetLanguage |-> targetLanguage,
     result |-> result, network |-> network, fallback |-> fallback,
     startedAt |-> startedAt, returnedAt |-> now, after |-> after,
     alone |-> \A c \in calls :
                   c.id = id \/ trCacheKey(c.text, c.targetLanguage)
                                  # trCacheKey(text, targetLanguage)]

\* a cache that is never read
cacheNeverHit(cacheKey) == FALSE

\* a cache whose entries are still served at the age of cacheTimeout
cacheHitAtTimeout(cacheKey) ==
    cacheKey \in DOMAIN cache /\ now - cache[cacheKey].timestamp <= cacheTimeout

\* cached && (Date.now() - cached.timestamp) < this.cacheTimeout
cacheHit(cacheKey) ==
    cacheKey \in DOMAIN cache /\ now - cache[cacheKey].timestamp < cacheTimeout

\* translateText up to its first await: the empty text, the missing key,
\* the cache, and the first request of #translateWithBackoff
TranslateText(text, targetLanguage) ==
    /\ nTranslate < MaxTranslate
    /\ Cardinality(calls) < MaxTrInFlight
    /\ nTranslate' = nTranslate + 1
    /\ LET id == nTranslate + 1
           cacheKey == trCacheKey(text, targetLanguage)
           return(result) ==
               Return(id, text, targetLanguage, now, {r.call : r \in returns},
                      result, FALSE, FALSE)
       IN  IF trim(text) = <<>>
           THEN /\ returns' = returns \cup
                      {return(TrResult(FALSE, Undefined, "undefined",
                                       "undefined", FALSE, FALSE,
                                       "Empty text provided"))}
                /\ UNCHANGED calls
           ELSE IF ~(groqKey \/ openaiKey)
           THEN /\ returns' = returns \cup
                      {return(TrResult(TRUE, text, "Unknown", "true", FALSE,
                                       TRUE, ""))}
                /\ UNCHANGED calls
           ELSE IF cacheHit(cacheKey)
           THEN /\ returns' = returns \cup
                      {return(TrResult(TRUE, cache[cacheKey].translation,
                                       cache[cacheKey].originalLanguage,
                                       cache[cacheKey].isEnglish, TRUE, FALSE,
                                       ""))}
                /\ UNCHANGED calls
           ELSE /\ calls' = calls \cup
                      {Call(id, text, targetLanguage, groqKey, 1, 0)}
                /\ UNCHANGED returns
    /\ UNCHANGED <<now, cacheVars, groqKey, openaiKey, cache, routeVars>>

\* translateText after #translateWithBackoff has returned content: parse,
\* this.cache.set and return, or the catch of a TypeError
Finish(c, content, fallback) ==
    LET result == parseContent(content, c.text)
        return(r) ==
            Return(c.id, c.text, c.targetLanguage, c.startedAt, c.after, r,
                   TRUE, fallback)
    IN  /\ calls' = calls \ {c}
        /\ IF result.threw
           THEN /\ returns' = returns \cup
                      {return(TrResult(FALSE, Undefined, "undefined",
                                       "undefined", FALSE, FALSE,
                                       "Cannot read properties of null"))}
                /\ UNCHANGED cache
           ELSE /\ cache' =
                      (trCacheKey(c.text, c.targetLanguage) :>
                          [translation |-> result.translation,
                           originalLanguage |-> result.originalLanguage,
                           isEnglish |-> result.isEnglish,
                           timestamp |-> now]) @@ cache
                /\ returns' = returns \cup
                      {return(TrResult(TRUE, result.translation,
                                       result.originalLanguage,
                                       result.isEnglish, FALSE, FALSE, ""))}

\* loops that leave the GROQ models for OpenAI at the first abandoned model
skipToOpenai(c, e) ==
    IF c.useGroq /\ openaiKey
    THEN calls' = (calls \ {c}) \cup
             {[c EXCEPT !.useGroq = FALSE, !.i = 1, !.attemptNum = 0,
                        !.pc = "post", !.last = e]}
         /\ UNCHANGED <<cache, returns>>
    ELSE IF c.i < Len(IF c.useGroq THEN groqModels ELSE openaiModels)
    THEN calls' = (calls \ {c}) \cup
             {[c EXCEPT !.i = c.i + 1, !.attemptNum = 0, !.pc = "post",
                        !.last = e]}
         /\ UNCHANGED <<cache, returns>>
    ELSE Finish(c, finalFallback, TRUE)

\* the loops of #translateWithBackoff move on to the next model, to the
\* OpenAI models after the GROQ models, or to the final fallback
NextModel(c, e) ==
    IF c.useGroq /\ c.i < Len(groqModels)
    THEN calls' = (calls \ {c}) \cup
             {[c EXCEPT !.i = c.i + 1, !.attemptNum = 0, !.pc = "post",
                        !.last = e]}
         /\ UNCHANGED <<cache, returns>>
    ELSE IF c.useGroq /\ openaiKey
    THEN calls' = (calls \ {c}) \cup
             {[c EXCEPT !.useGroq = FALSE, !.i = 1, !.attemptNum = 0,
                        !.pc = "post", !.last = e]}
         /\ UNCHANGED <<cache, returns>>
    ELSE IF ~c.useGroq /\ c.i < Len(openaiModels)
    THEN calls' = (calls \ {c}) \cup
             {[c EXCEPT !.i = c.i + 1, !.attemptNum = 0, !.pc = "post",
                        !.last = e]}
         /\ UNCHANGED <<cache, returns>>
    ELSE Finish(c, finalFallback, TRUE)

\* axios.post resolves: attempt returns the content
Respond(c, content) ==
    /\ c \in calls /\ c.pc = "post"
    /\ Finish(c, content, FALSE)
    /\ UNCHANGED <<now, cacheVars, groqKey, openaiKey, nTranslate,
                   routeVars>>

\* axios.post rejects, or attempt throws on the body: the catch of the loop
\* sleeps before a retry, or breaks to the next model
Fail(c, e) ==
    /\ c \in calls /\ c.pc = "post"
    /\ IF (IF c.useGroq THEN groqRetries(e) ELSE openaiRetries(e))
       THEN /\ calls' = (calls \ {c}) \cup
                  {[c EXCEPT !.pc = "sleep", !.last = e]}
            /\ UNCHANGED <<cache, returns>>
       ELSE NextModel(c, e)
    /\ UNCHANGED <<now, cacheVars, groqKey, openaiKey, nTranslate,
                   routeVars>>

\* a loop that tries the model again after every backoff
wakeAgain(c) ==
    /\ c \in calls /\ c.pc = "sleep"
    /\ calls' = (calls \ {c}) \cup
           {[c EXCEPT !.attemptNum = c.attemptNum + 1, !.pc = "post"]}
    /\ UNCHANGED <<cache, returns>>
    /\ UNCHANGED <<now, cacheVars, groqKey, openaiKey, nTranslate,
                   routeVars>>

\* the backoff is over: continue with the next attempt on the model, or
\* with the next model when attemptNum has reached its bound
Wake(c) ==
    /\ c \in calls /\ c.pc = "sleep"
    /\ IF c.attemptNum + 1 < (IF c.useGroq THEN GroqAttempts
                                           ELSE OpenaiAttempts)
       THEN /\ calls' = (calls \ {c}) \cup
                  {[c EXCEPT !.attemptNum = c.attemptNum + 1, !.pc = "post"]}
            /\ UNCHANGED <<cache, returns>>
       ELSE NextModel(c, c.last)
    /\ UNCHANGED <<now, cacheVars, groqKey, openaiKey, nTranslate,
                   routeVars>>

\* the clock of the translation service moves on by half the cacheTimeout
TrTick ==
    /\ now + cacheTimeout \div 2 <= MaxTrTicks * (cacheTimeout \div 2)
    /\ calls = {}
    /\ now' = now + cacheTimeout \div 2
    /\ UNCHANGED <<cacheVars, trVars, routeVars>>

\* the service with any of its keys set or missing
InitTranslation ==
    /\ CacheInit
    /\ \E groq, openai \in BOOLEAN : TranslationInit(groq, openai)
    /\ RouteInit

\* translateText calls one at a time
NextTranslation ==
    \/ \E text \in TrTexts :
           /\ nTranslate < MaxTranslateSeq
           /\ calls = {}
           /\ TranslateText(text, English)
    \/ \E c \in calls, content \in Contents : Respond(c, content)
    \/ \E c \in calls, e \in Failures : Fail(c, e)
    \/ \E c \in calls : Wake(c)
    \/ TrTick

SpecTranslation == InitTranslation /\ [][NextTranslation]_vars

\* a call in flight goes on: axios.post resolves or rejects (at the latest
\* at its timeout of 30000 ms) and the sleep of a backoff ends
Proceeds ==
    \/ \E c \in calls, content \in Contents : Respond(c, content)
    \/ \E c \in calls, e \in Failures : Fail(c, e)
    \/ \E c \in calls : Wake(c)

SpecTranslationFair == SpecTranslation /\ WF_vars(Proceeds)

\* translateText calls that overlap
NextOverlap ==
    \/ \E text \in TrTexts : TranslateText(text, English)
    \/ \E c \in calls, content \in Contents : Respond(c, content)
    \/ \E c \in calls, e \in Failures : Fail(c, e)
    \/ \E c \in calls : Wake(c)
    \/ TrTick

SpecOverlap == InitTranslation /\ [][NextOverlap]_vars

(***************************************************************************)
(* The route POST /api/text-inputs (routes/textInputs.js).  An event is    *)
(* the body of a request; a field the body lacks is Missing.  The route    *)
(* rejects the event, hands it to checkAndUpdateMessage, or, when its      *)
(* inputType is complete_message, to saveTextInputToDB.                    *)
(***************************************************************************)
Missing == <<>>

Event(id, deviceId, packageName, appName, viewId, keyboardInput, inputType) ==
    [id |-> id, deviceId |-> deviceId, packageName |-> packageName,
     appName |-> appName, viewId |-> viewId, keyboardInput |-> keyboardInput,
     inputType |-> inputType]

\* the id a client gives its n-th message
ClientId(n) == << <<"c">>, <<0, n>> >>

\* texts that share their first 15 characters
Long1 == [i \in 1..15 |-> "h"] \o <<"x">>

Long2 == [i \in 1..15 |-> "h"] \o <<"y">>

Long3 == [i \in 1..15 |-> "h"] \o <<"x", "y">>

\* partial events
PartialEvents ==
    { Event(ClientId(1), Key1[1], Key1[2], <<"A">>, Key1[3], <<"h">>, "partial"),
      Event(ClientId(1), Key1[1], Key1[2], <<"A">>, Key1[3], <<"x", "y">>, "partial"),
      Event(ClientId(1), Key1[1], Key1[2], <<"A">>, Missing, <<"h">>, "partial") }

\* events that lack a field the route requires
InvalidEvents ==
    { Event(ClientId(1), Missing, Key1[2], <<"A">>, Key1[3], <<"h">>, "partial"),
      Event(ClientId(1), Key1[1], Missing, <<"A">>, Key1[3], <<"h">>, "partial"),
      Event(ClientId(1), Key1[1], Key1[2], <<"A">>, Key1[3], Missing, "partial"),
      Event(ClientId(1), Key1[1], Missing, <<"A">>, Key1[3], <<"h">>,
            "complete_message") }

\* complete events
CompleteEvents ==
    { Event(ClientId(1), Key1[1], Key1[2], <<"A">>, Key1[3], <<"h", "e">>,
            "complete_message"),
      Event(ClientId(2), Key1[1], Key1[2], <<"A">>, Key1[3], <<"h">>,
            "complete_message"),
      Event(ClientId(2), Key1[1], Key1[2], <<"A">>, Key1[3], <<"x", "y">>,
            "complete_message"),
      Event(ClientId(1), Key1[1], Key1[2], <<"A">>, Key1[3], Long1,
            "complete_message"),
      Event(ClientId(2), Key1[1], Key1[2], <<"A">>, Key1[3], Long2,
            "complete_message"),
      Event(ClientId(2), Key1[1], Key1[2], <<"A">>, Key1[3], Long3,
            "complete_message") }

Events == PartialEvents \cup InvalidEvents \cup CompleteEvents

\* line 32: the fields the route requires
Validates(ev) ==
    /\ ev.id # Missing
    /\ ev.packageName # Missing
    /\ ev.appName # Missing
    /\ ev.keyboardInput # Missing
    /\ ev.deviceId # Missing

\* the key the route hands to the cache service: a viewId the body lacks is
\* undefined, which the template strings of the service print as
\* 'undefined'
keyOf(ev) ==
    <<ev.deviceId, ev.packageName,
      IF ev.viewId = Missing THEN Undefined ELSE ev.viewId>>

\* no document
NoDoc ==
    [id |-> <<>>, timestamp |-> <<0, 0>>, packageName |-> <<>>,
     deviceId |-> <<>>, keyboardInput |-> <<>>, viewId |-> <<>>,
     inputType |-> "", keyboardInputEN |-> <<>>,
     keyboardInputHistory |-> <<>>]

\* a response of the route, with summarizeResult of the document
Reply(status, message, ev, doc) ==
    [status |-> status, message |-> message, ev |-> ev,
     textInputId |-> doc.id, keyboardInput |-> doc.keyboardInput]

\* 400, Missing required fields
Reject(ev) ==
    /\ ~Validates(ev)
    /\ replies' = replies \cup {Reply(400, "Missing required fields", ev, NoDoc)}
    /\ UNCHANGED <<now, cacheVars, trVars, direct>>

\* a partial event goes to cacheService.checkAndUpdateMessage
PostPartial(ev) ==
    /\ Validates(ev)
    /\ ev.inputType # "complete_message"
    /\ CheckAndUpdateMessage(keyOf(ev), ev.keyboardInput)

(***************************************************************************)
(* saveTextInputToDB(data), from the document it prepares to the upsert.   *)
(* D is the collection, ts the timestamp of the event, ok whether the      *)
(* store accepts the writes of the call.  A step that merges the event     *)
(* into the latest document of its field returns at once; a write that     *)
(* fails in steps 0 and 1 is caught and the function goes on, the upsert   *)
(* throws.                                                                 *)
(***************************************************************************)
prefixLen == 15

\* the document called incoming
incomingDoc(ev, ts) ==
    [id |-> ev.id, timestamp |-> ts, packageName |-> ev.packageName,
     deviceId |-> ev.deviceId, keyboardInput |-> ev.keyboardInput,
     viewId |-> ev.viewId, inputType |-> "complete_message",
     keyboardInputEN |-> <<>>, keyboardInputHistory |-> <<>>]

\* timestamp t1 is later than t2
later(t1, t2) == t1[1] > t2[1] \/ (t1[1] = t2[1] /\ t1[2] > t2[2])

\* the documents of the device, package and view of the incoming one
sameField(D, incoming) ==
    {d \in D : /\ d.deviceId = incoming.deviceId
               /\ d.packageName = incoming.packageName
               /\ d.viewId = incoming.viewId}

\* findOne(...).sort({ timestamp: -1 }) on documents S
latest(S) == CHOOSE d \in S : \A q \in S : q = d \/ later(d.timestamp, q.timestamp)

saveTextInputToDB(D, ev, ts, ok) ==
    LET incoming == incomingDoc(ev, ts)
        S == sameField(D, incoming)
        existing == latest(S)
        oldText == trim(existing.keyboardInput)
        newText == trim(incoming.keyboardInput)
        oldInput == existing.keyboardInput
        newInput == incoming.keyboardInput
        byId == {d \in D : d.id = incoming.id}
        stored == CHOOSE d \in byId : TRUE
    IN  IF /\ S # {} /\ ok
           /\ Len(oldText) >= prefixLen /\ Len(newText) >= prefixLen
           /\ SubSeq(oldText, 1, prefixLen) = SubSeq(newText, 1, prefixLen)
        THEN LET doc == [existing EXCEPT
                           !.keyboardInputHistory = Append(@, oldText),
                           !.keyboardInput = newText,
                           !.timestamp = ts]
             IN  [db |-> (D \ {existing}) \cup {doc}, doc |-> doc,
                  step |-> "prefix"]
        ELSE IF /\ S # {} /\ ok
                /\ Len(newInput) >= Len(oldInput) /\ includes(newInput, oldInput)
        THEN LET doc == [incoming EXCEPT
                           !.id = existing.id,
                           !.keyboardInputEN = existing.keyboardInputEN,
                           !.keyboardInputHistory = existing.keyboardInputHistory]
             IN  [db |-> (D \ {existing}) \cup {doc}, doc |-> doc,
                  step |-> "superset"]
        ELSE IF /\ S # {} /\ ok
                /\ Len(oldInput) >= Len(newInput) /\ includes(oldInput, newInput)
        THEN LET doc == [existing EXCEPT !.timestamp = ts]
             IN  [db |-> (D \ {existing}) \cup {doc}, doc |-> doc,
                  step |-> "subset"]
        ELSE IF ~ok
        THEN [db |-> D, doc |-> NoDoc, step |-> "threw"]
        ELSE LET doc ==
                   IF byId = {} THEN incoming
                   ELSE [incoming EXCEPT
                           !.keyboardInput =
                               IF Len(incoming.keyboardInput) < Len(stored.keyboardInput)
                               THEN stored.keyboardInput
                               ELSE incoming.keyboardInput,
                           !.keyboardInputEN = stored.keyboardInputEN,
                           !.keyboardInputHistory = stored.keyboardInputHistory]
             IN  [db |-> (D \ byId) \cup {doc}, doc |-> doc, step |-> "upsert"]

\* a saveTextInputToDB call in flight after its upsert: the event, the id
\* and text of the document it wrote, the number of its translateText call
Direct(id, ev, doc, tr) ==
    [id |-> id, ev |-> ev, doc |-> doc.id, text |-> doc.keyboardInput, tr |-> tr]

\* a complete event: saveTextInputToDB up to its upsert; 201 when a merge
\* step returned, 500 when the upsert threw
PostComplete(ev, ok) ==
    /\ Validates(ev)
    /\ ev.inputType = "complete_message"
    /\ nIngest < MaxIngest
    /\ ok \/ nFail < MaxSaveFailures
    /\ nFail' = IF ok THEN nFail ELSE nFail + 1
    /\ nIngest' = nIngest + 1
    /\ LET out == saveTextInputToDB(db, ev, <<now, nIngest + 1>>, ok)
       IN  /\ db' = out.db
           /\ IF out.step = "upsert"
              THEN /\ direct' = direct \cup
                         {Direct(nIngest + 1, ev, out.doc, nTranslate + 1)}
                   /\ UNCHANGED replies
              ELSE /\ replies' = replies \cup
                         {IF out.step = "threw"
                          THEN Reply(500, "Failed to process text input", ev, NoDoc)
                          ELSE Reply(201, "Complete message saved successfully",
                                     ev, out.doc)}
                   /\ UNCHANGED direct
    /\ UNCHANGED <<now, isConnected, redis, timers, messageTimeouts, procs,
                   nAll, log, allLog, gone>>
    /\ UNCHANGED trVars

\* translationService.translateText(result.keyboardInput || '')
DirectTranslate(w) ==
    /\ w \in direct
    /\ nTranslate + 1 = w.tr
    /\ TranslateText(w.text, English)

\* a JS value that counts as true in a condition
truthy(v) == v = "true"

\* the translation is written over the text of the document
setKeyboardInput(doc, result) ==
    IF result.success
    THEN [doc EXCEPT !.keyboardInput = result.translation]
    ELSE doc

\* the document after the branches on translationResult: keyboardInputEN
\* gets the translation, or the text itself when it is English already
setKeyboardInputEN(doc, result) ==
    IF result.success /\ ~truthy(result.isEnglish)
    THEN [doc EXCEPT !.keyboardInputEN = result.translation]
    ELSE IF result.success
    THEN [doc EXCEPT !.keyboardInputEN = doc.keyboardInput]
    ELSE doc

\* the translation has returned: keyboardInputEN is set and saved (a save
\* that fails is caught), the device is updated, the route answers 201
DirectWriteBack(w, ok) ==
    /\ w \in direct
    /\ \E r \in returns :
          /\ r.call = w.tr
          /\ LET doc == CHOOSE d \in db : d.id = w.doc
                 translated == setKeyboardInputEN(doc, r.result)
                 saves == ok /\ trim(translated.keyboardInput) # <<>>
             IN  /\ db' = IF saves THEN (db \ {doc}) \cup {translated} ELSE db
                 /\ replies' = replies \cup
                        {Reply(201, "Complete message saved successfully",
                               w.ev, translated)}
    /\ direct' = direct \ {w}
    /\ UNCHANGED <<now, isConnected, redis, timers, messageTimeouts, procs,
                   nIngest, nAll, nFail, log, allLog, gone>>
    /\ UNCHANGED trVars

\* no request is being served
Quiet == procs = {} /\ direct = {} /\ calls = {}

\* valid events one at a time, a provider that answers or refuses; no
\* time passes
NextRoute ==
    \/ \E ev \in PartialEvents :
           Quiet /\ nIngest < MaxRequests /\ PostPartial(ev)
    \/ \E ev \in CompleteEvents, ok \in BOOLEAN :
           Quiet /\ nIngest < MaxRequests /\ PostComplete(ev, ok)
    \/ \E w \in direct : DirectTranslate(w)
    \/ \E c \in calls, content \in Contents : Respond(c, content)
    \/ \E c \in calls : Fail(c, Failure(400, "Invalid request"))
    \/ \E w \in direct, ok \in BOOLEAN : DirectWriteBack(w, ok)
    \/ \E p \in procs : IngestSetNew(p)
    \/ \E p \in procs : IngestSetCont(p)
    \/ \E p \in procs, ok \in BOOLEAN : IngestSave(p, ok)
    \/ \E p \in procs : IngestSetDiv(p)

SpecRoute == Init /\ [][NextRoute]_vars

\* events valid or not, one at a time, the partial ones to the cache
\* service, and the timers
NextValidation ==
    \/ \E ev \in Events : Quiet /\ Reject(ev)
    \/ \E ev \in Events :
           Quiet /\ nIngest < MaxRequests /\ PostPartial(ev)
    \/ \E t \in timers : Quiet /\ TimerFire(t)
    \/ \E p \in procs : IngestSetNew(p)
    \/ \E p \in procs : IngestSetCont(p)
    \/ \E p \in procs, ok \in BOOLEAN : IngestSave(p, ok)
    \/ \E p \in procs : IngestSetDiv(p)
    \/ \E p \in procs, ok \in BOOLEAN : CompleteSave(p, ok)
    \/ \E p \in procs : CompleteDel(p)
    \/ \E cacheKey \in DOMAIN redis : Expire(cacheKey)
    \/ Tick

SpecValidation == Init /\ [][NextValidation]_vars

(***************************************************************************)
(* What the claims speak of.                                               *)
(***************************************************************************)
\* the collection holds the document of entry e with the text e held
Persisted(e) == \E r \in db : r.id = e.id /\ r.keyboardInput = e.text

\* a timer of key is armed, or its callback is in flight
TimerPending(key) ==
    \/ \E t \in timers : t.key = key
    \/ \E p \in procs : p.kind = "timer" /\ p.key = key

\* the results of the calls that wrote to the entry of message m
ResultsOn(m) == {r \in log : recordId(r.cachedMessage) = recordId(m)}

(***************************************************************************)
(* C1  Idle timeout: an entry that got no further ingest during the idle   *)
(* window (its TTL ran out) has been handed to persistence with its text   *)
(* once the timers of its key have run, whichever of the TTL expiry and    *)
(* the timer callback came first.                                          *)
(***************************************************************************)
C1_IdleTimeoutFlushes ==
    \A e \in gone :
        (e.cause = "expired" /\ ~TimerPending(e.key)) => Persisted(e)

(***************************************************************************)
(* C2  No silent loss: every entry that has left the keyspace (by del, by  *)
(* TTL expiry or by being overwritten) has its last text in a document of  *)
(* the collection.                                                         *)
(***************************************************************************)
C2_NoSilentLoss == \A e \in gone : Persisted(e)

(***************************************************************************)
(* C3  Per-key serialization: the calls on one key behave as if run one    *)
(* at a time.  Run one at a time, every continuation that returned has     *)
(* raised the updateCount of the entry by one, so the entry in the cache   *)
(* counts one more than the continuations that returned on it (two         *)
(* overlapping continuations raise updateCount by 2).                      *)
(***************************************************************************)
C3_PerKeySerialization ==
    \A cacheKey \in DOMAIN redis :
        redis[cacheKey].val.updateCount =
            1 + Cardinality({r \in ResultsOn(redis[cacheKey].val) :
                                 r.isPartOfExisting})

\* the inputs of the results R grow: each contains the ones before it
Growing(R) == \A a, b \in R : a.call < b.call => includes(b.text, a.text)

\* the result of the last call among the results R
Last(R) == CHOOSE r \in R : \A q \in R : q.call <= r.call

(***************************************************************************)
(* C4  Monotonic growth merges: when the n >= 2 inputs written to an entry *)
(* each contain their predecessor, the first call reported a new message   *)
(* and the later ones a continuation, the entry holds the last input and   *)
(* updateCount = n while it is cached, and once the entry has left the     *)
(* cache and the timers of its key have run, exactly one document of the   *)
(* collection carries its id, with the last input as its text.             *)
(***************************************************************************)
C4_MonotonicGrowthMerges ==
    \A r \in log :
        LET R == ResultsOn(r.cachedMessage)
            n == Cardinality(R)
        IN  (r.cachedMessage # NoMsg /\ n >= 2 /\ Growing(R)) =>
                /\ Cardinality({q \in R : ~q.isPartOfExisting}) = 1
                /\ \A q \in R : q.isPartOfExisting <=> \E a \in R : a.call < q.call
                /\ Last(R).cachedMessage.currentText = Last(R).text
                /\ Last(R).cachedMessage.updateCount = n
                /\ \A e \in gone :
                      (e.id = recordId(r.cachedMessage) /\ procs = {}
                         /\ ~TimerPending(e.key)) =>
                          /\ e.text = Last(R).text
                          /\ Cardinality({d \in db : d.id = e.id}) = 1
                          /\ Persisted(e)

(***************************************************************************)
(* C5  Divergence flush: when a call reports that the input did not match  *)
(* the cached entry (shouldUpdate), the collection holds the document of   *)
(* the entry it found, with the text that entry had, and the new entry     *)
(* the call wrote holds the incoming text and updateCount = 1; while the   *)
(* call is about to write the new entry, no timer of the old one is        *)
(* armed.                                                                  *)
(***************************************************************************)
C5_DivergenceFlush ==
    /\ \A r \in log :
          r.shouldUpdate =>
              /\ Persisted(Entry(r.flushed, "del"))
              /\ ~r.isPartOfExisting
              /\ r.cachedMessage.currentText = r.text
              /\ r.cachedMessage.updateCount = 1
    /\ \A p \in procs :
          (p.kind = "ingest" /\ p.pc = "setDiv") =>
              /\ Persisted(Entry(p.msg, "del"))
              /\ \A t \in timers :
                    ~(t.key = p.key /\ t.entry = p.msg.startTime)

(***************************************************************************)
(* C6  No stale or premature timer flush: a timer callback that has saved  *)
(* an entry and is about to delete it runs no earlier than the idle        *)
(* window after the last ingest that wrote the entry, and its timer was    *)
(* armed for that entry, not for an earlier entry of the key.              *)
(***************************************************************************)
C6_NoStaleOrPrematureFlush ==
    \A p \in procs :
        (p.kind = "timer" /\ p.pc = "del" /\ p.saveOk) =>
            /\ now >= p.msg.lastUpdateTime + TimeoutSeconds
            /\ p.entry = p.msg.startTime

(***************************************************************************)
(* C7  Exactly one scheduled flush per entry: a key never has two armed    *)
(* timers, and while no call is in flight every cached entry has an armed  *)
(* timer of its key.                                                       *)
(***************************************************************************)
C7_OneScheduledFlush ==
    /\ \A t1, t2 \in timers : t1.key = t2.key => t1 = t2
    /\ procs = {} =>
          \A cacheKey \in DOMAIN redis :
              \E t \in timers :
                  getCacheKey(t.key[1], t.key[2], t.key[3]) = cacheKey

\* the cache key a flush in flight is working on
flushKey(p) == IF p.kind = "all" THEN p.cur ELSE cacheKeyOf(p)

(***************************************************************************)
(* C8  Persistence failure keeps the entry: the step a flush (timer        *)
(* callback, divergence, completeAll) takes after a save that stored       *)
(* nothing leaves the entry of its key in the cache as it was.             *)
(***************************************************************************)
C8_FailedSaveKeepsEntry ==
    [][\A p \in procs :
          (p.pc \in {"del", "setDiv"} /\ ~p.saveOk /\ p \notin procs'
             /\ flushKey(p) \in DOMAIN redis) =>
              /\ flushKey(p) \in DOMAIN redis'
              /\ redis'[flushKey(p)].val = redis[flushKey(p)].val]_vars

(***************************************************************************)
(* C9  Persistence errors propagate: no call returns as after a flush      *)
(* when a save of the call stored nothing: a call that reports the         *)
(* previous message saved (shouldUpdate) has stored its document, and no   *)
(* completeAll returns normally after a save of it failed.                 *)
(***************************************************************************)
C9_PersistenceErrorsPropagate ==
    /\ \A r \in log : r.shouldUpdate => r.saveOk
    /\ \A a \in allLog : ~a.failed

(***************************************************************************)
(* C10  Shutdown durability: when completeAll has returned, no ingest ran  *)
(* during it and N >= 2 entries on distinct keys were cached when it was   *)
(* called, each of the N has its document with its text in the collection  *)
(* and the stats count no pending message.                                 *)
(***************************************************************************)
C10_ShutdownDurability ==
    \A a \in allLog :
        (~a.overlap /\ Cardinality(a.snap) >= 2) =>
            /\ \A e \in a.snap : Persisted(e)
            /\ a.pendingMessages = 0

\* a call returned what a provider answered
ProviderResult(r) == r.network /\ ~r.fallback /\ r.result.success

(***************************************************************************)
(* C12  Policy fallback: a call whose every attempt on every model failed  *)
(* returns a success that treats the input as English (isEnglish true,     *)
(* translation the input text) and that differs from every result a        *)
(* provider's answer produced.                                             *)
(***************************************************************************)
C12_PolicyFallback ==
    \A r \in returns :
        r.fallback =>
            /\ r.result.success
            /\ r.result.isEnglish = "true"
            /\ r.result.translation = r.text
            /\ \A q \in returns : ProviderResult(q) => q.result # r.result

(***************************************************************************)
(* C13  Only verified results are cached: every entry of the translation   *)
(* cache was written by a call that returned a provider's answer, never    *)
(* by the final fallback.                                                  *)
(***************************************************************************)
C13_OnlyVerifiedCached ==
    \A cacheKey \in DOMAIN cache :
        \E r \in returns :
            /\ ProviderResult(r)
            /\ trCacheKey(r.text, r.targetLanguage) = cacheKey
            /\ r.returnedAt = cache[cacheKey].timestamp
            /\ r.result.translation = cache[cacheKey].translation

\* call r2 started after call r1 had returned, less than cacheTimeout
\* later, with the same text and target language
LaterCall(r1, r2) ==
    /\ r1.call \in r2.after
    /\ r2.text = r1.text /\ r2.targetLanguage = r1.targetLanguage
    /\ r2.startedAt - r1.returnedAt < cacheTimeout

\* r2 returned the translation of r1 without a request
SameFromCache(r1, r2) ==
    /\ ~r2.network
    /\ r2.result.success
    /\ r2.result.translation = r1.result.translation
    /\ r2.result.originalLanguage = r1.result.originalLanguage
    /\ r2.result.isEnglish = r1.result.isEnglish

(***************************************************************************)
(* C14  Cache idempotence, as stated: after a call has returned a          *)
(* provider's answer, every later call with the same text and target       *)
(* language within 24 h returns the same translation, originalLanguage     *)
(* and isEnglish and issues no request.                                    *)
(***************************************************************************)
C14_CacheIdempotence ==
    \A r1, r2 \in returns :
        (ProviderResult(r1) /\ LaterCall(r1, r2)) => SameFromCache(r1, r2)

(***************************************************************************)
(* C14 amended: the same, for a call that returned a provider's answer     *)
(* while no other call with its text and target language was in flight.    *)
(***************************************************************************)
C14_CacheIdempotenceAlone ==
    \A r1, r2 \in returns :
        (ProviderResult(r1) /\ r1.alone /\ LaterCall(r1, r2)) =>
            SameFromCache(r1, r2)

\* C14 witness: a later call has been served the answer of an earlier one
C14_Witness ==
    \E r1, r2 \in returns :
        /\ ProviderResult(r1) /\ r1.alone /\ LaterCall(r1, r2)
        /\ r2.result.cached
        /\ r2.startedAt > r1.returnedAt

\* the place of the model of call c in the plan: the GROQ models, then the
\* OpenAI models
planModel(c) == IF c.useGroq THEN c.i ELSE Len(groqModels) + c.i

\* the attempts the loop of call c makes on one model
budget(c) == IF c.useGroq THEN GroqAttempts ELSE OpenaiAttempts

\* a failure that is rate-limited, over-capacity or 5xx
Retryable(e) ==
    \/ e.status >= 500
    \/ e.status = 429 \/ rateLimitTest(e.msg)
    \/ overCapacityTest(e.msg)

\* a failure with a 4xx status that is not retryable
Terminal(e) == e.status \in 400..499 /\ ~Retryable(e)

(***************************************************************************)
(* C15  Retryable failures are retried on the same model: on either        *)
(* provider, a request that fails rate-limited, over-capacity or 5xx       *)
(* before the budget of its model is used up is followed by a backoff      *)
(* wait, and the wait by another attempt on the same model.                *)
(***************************************************************************)
C15_RetryableRetried ==
    [][\A c \in calls : \A d \in calls' :
          (d.id = c.id /\ d # c /\ c.attemptNum + 1 < budget(c)) =>
              /\ (c.pc = "post" /\ Retryable(d.last)) =>
                     /\ d.pc = "sleep"
                     /\ planModel(d) = planModel(c)
                     /\ d.attemptNum = c.attemptNum
              /\ c.pc = "sleep" =>
                     /\ d.pc = "post"
                     /\ planModel(d) = planModel(c)
                     /\ d.attemptNum = c.attemptNum + 1]_vars

(***************************************************************************)
(* C16  Terminal failures skip the model: a request that fails with a      *)
(* terminal failure is followed by no backoff wait and no further attempt  *)
(* on its model; the call goes on with the first attempt on the next       *)
(* model of the plan (or, past the last model, returns).                   *)
(***************************************************************************)
C16_TerminalSkipsModel ==
    [][\A c \in calls : \A d \in calls' :
          (c.pc = "post" /\ d.id = c.id /\ d # c /\ Terminal(d.last)) =>
              /\ d.pc = "post"
              /\ planModel(d) = planModel(c) + 1
              /\ d.attemptNum = 0]_vars

\* C16 witness: after a terminal failure on the last GROQ model the call
\* is at its first attempt on the first OpenAI model
C16_Witness ==
    \E c \in calls :
        /\ groqKey /\ ~c.useGroq /\ c.i = 1
        /\ c.pc = "post" /\ c.attemptNum = 0
        /\ Terminal(c.last)

(***************************************************************************)
(* C17  Plan order: a call starts with the first model of the first        *)
(* provider that has a key; each further request is the next attempt on    *)
(* the same model after a backoff, or the first attempt on the next model  *)
(* of the plan once the model was abandoned or its attempts are used up;   *)
(* OpenAI is reached only from the last GROQ model; and a call that has    *)
(* returned issues no request.                                             *)
(***************************************************************************)
C17_PlanOrder ==
    [][/\ \A d \in calls' :
            d.id \notin {c.id : c \in calls} =>
                /\ d.pc = "post" /\ d.i = 1 /\ d.attemptNum = 0
                /\ d.useGroq = groqKey
       /\ \A c \in calls : \A d \in calls' :
            (d.id = c.id /\ d # c) =>
                \/ /\ c.pc = "post" /\ d.pc = "sleep"
                   /\ planModel(d) = planModel(c)
                   /\ d.attemptNum = c.attemptNum
                \/ /\ c.pc = "sleep" /\ d.pc = "post"
                   /\ planModel(d) = planModel(c)
                   /\ d.attemptNum = c.attemptNum + 1
                   /\ d.attemptNum < budget(d)
                \/ /\ d.pc = "post"
                   /\ planModel(d) = planModel(c) + 1
                   /\ d.attemptNum = 0
                   /\ c.pc = "post" \/ c.attemptNum + 1 = budget(c)
                   /\ d.useGroq \/ openaiKey
       /\ \A r \in returns' : \A d \in calls' : d.id # r.call]_vars

\* C17 witness: a call that began with the GROQ models is at the last
\* OpenAI model
C17_Witness ==
    \E c \in calls : groqKey /\ ~c.useGroq /\ c.i = Len(openaiModels)

(***************************************************************************)
(* C18  Provider errors are never surfaced: with a key set and a text      *)
(* that is not blank, translateText returns a success whatever the         *)
(* providers answer.                                                       *)
(***************************************************************************)
C18_NoProviderErrorSurfaced ==
    \A r \in returns :
        (trim(r.text) # <<>> /\ (groqKey \/ openaiKey)) => r.result.success

\* the null result: checkAndUpdateMessage found the client not connected,
\* or a command of it rejected
PassThrough(r) == r.cachedMessage = NoMsg

\* the collection holds a document of the key of result r with its text
Recorded(r) ==
    \E d \in db : /\ d.deviceId = r.key[1]
                  /\ d.packageName = r.key[2]
                  /\ d.viewId = r.key[3]
                  /\ d.keyboardInput = r.text

(***************************************************************************)
(* C19  Cache backend unavailable: when checkAndUpdateMessage has returned *)
(* because the client was not connected or a command rejected, the text of *)
(* the partial input is in a document of the collection: the input was     *)
(* handled as already complete, not dropped.                               *)
(***************************************************************************)
C19_PassThroughPersists == \A r \in log : PassThrough(r) => Recorded(r)

\* the collection holds a document of entry e, whatever its text
HasRecord(e) == \E d \in db : d.id = e.id

(***************************************************************************)
(* C11  Shutdown ordering: while the handler of the signal disconnects,    *)
(* closes the database or exits, completeAllPendingMessages is no longer   *)
(* in flight; when it closes the database or exits, the client is          *)
(* disconnected; and once the process has exited, every entry that was in  *)
(* the cache when the signal arrived has a document in the collection.     *)
(***************************************************************************)
C11_ShutdownOrdering ==
    \A s \in procs :
        s.kind = "signal" =>
            /\ s.pc # "flush" => \A p \in procs : p.kind # "all"
            /\ s.pc \in {"exit", "exited"} => ~isConnected
            /\ s.pc = "exited" => \A e \in s.snap : HasRecord(e)

\* the documents of the collection that carry the id of entry e
RecordsOf(e) == {d \in db : d.id = e.id}

(***************************************************************************)
(* C20  Exactly-once reconstruction: under every interleaving of the       *)
(* calls on a key, no two documents carry the id of one entry, and once an *)
(* entry has left the cache, no call is in flight and no timer of its key  *)
(* is pending, exactly one document carries its id and that document holds *)
(* the text the entry had when it left.                                    *)
(***************************************************************************)
C20_ExactlyOnce ==
    \A e \in gone :
        /\ Cardinality(RecordsOf(e)) <= 1
        /\ (procs = {} /\ ~TimerPending(e.key)) =>
              /\ Cardinality(RecordsOf(e)) = 1
              /\ Persisted(e)

(***************************************************************************)
(* The edit distance of a and b: the least number of insertions, deletions *)
(* and substitutions of one character that turn a into b, by recursion on  *)
(* the suffixes a[i..] and b[j..].                                         *)
(***************************************************************************)
editDistance(a, b) ==
    LET d[i \in 1..(Len(a) + 1), j \in 1..(Len(b) + 1)] ==
            IF i > Len(a) THEN Len(b) - j + 1
            ELSE IF j > Len(b) THEN Len(a) - i + 1
            ELSE IF a[i] = b[j] THEN d[i + 1, j + 1]
            ELSE 1 + min3(d[i + 1, j], d[i, j + 1], d[i + 1, j + 1])
    IN  d[1, 1]

maxLen(a, b) == IF Len(a) > Len(b) THEN Len(a) ELSE Len(b)

\* 1 - editDistance(a, b) / max(len(a), len(b)) > 0.8, in integers; the
\* ratio of two empty texts is not defined and does not match
fuzzyRatioAbove(a, b) ==
    /\ maxLen(a, b) > 0
    /\ 10 * (maxLen(a, b) - editDistance(a, b)) > 8 * maxLen(a, b)

\* the decision on texts a and b: normalize, containment, fuzzy ratio
matcherDecision(a, b) ==
    LET na == trim(toLowerCase(a))
        nb == trim(toLowerCase(b))
    IN  includes(na, nb) \/ includes(nb, na) \/ fuzzyRatioAbove(na, nb)

\* the call p found an entry and ran isTextPartOfMessage on it
Matched(p) == p.kind = "ingest" /\ p.msg # NoMsg

(***************************************************************************)
(* C30  SimilarityMatcher decision: a call that found an entry with text a *)
(* and was given text b (both non-empty) goes on as a continuation exactly *)
(* when, after trimming and lowercasing both, one is a substring of the    *)
(* other or 1 - editDistance / max(len) > 0.8.                             *)
(***************************************************************************)
C30_MatcherDecision ==
    \A p \in procs :
        Matched(p) =>
            /\ p.msg.currentText # <<>> /\ p.text # <<>>
            /\ (p.pc = "setCont") <=> matcherDecision(p.msg.currentText, p.text)
            /\ isTextPartOfMessage(p.msg.currentText, p.text)
                   <=> matcherDecision(p.msg.currentText, p.text)

\* a continuation by the fuzzy ratio alone, and a divergence one edit away
C30_Witness ==
    /\ \E p \in procs :
          /\ Matched(p) /\ p.pc = "setCont"
          /\ ~includes(p.msg.currentText, p.text)
          /\ ~includes(p.text, p.msg.currentText)
          /\ editDistance(p.msg.currentText, p.text) = 1

\* the step is the callback of a timer of a key that has no entry (or
\* that finds the client not connected): completeMessage returns at once
FlushOfNothing ==
    \E t \in timers :
        /\ timers' = timers \ {t}
        /\ messageTimeouts' = messageTimeouts
        /\ ~isConnected \/ getCacheKey(t.key[1], t.key[2], t.key[3]) \notin DOMAIN redis

\* the step is the last of a timer callback that found an entry
FlushEnds(p) == p.kind = "timer" /\ p.pc = "del" /\ p \in procs /\ p \notin procs'

(***************************************************************************)
(* C21  Flush is idempotent: a completeMessage on a key without an entry   *)
(* starts no call and leaves the collection and the keyspace as they were, *)
(* and a completeMessage that found an entry leaves the key without one,   *)
(* so that the flush that follows it is of the first kind: flushing twice  *)
(* in a row stores what flushing once stores.                              *)
(***************************************************************************)
C21_FlushIdempotent ==
    [][/\ FlushOfNothing => (db' = db /\ redis' = redis /\ procs' = procs
                               /\ log' = log /\ gone' = gone)
       /\ \A p \in procs :
             FlushEnds(p) => /\ cacheKeyOf(p) \notin DOMAIN redis'
                             /\ db' = db]_vars

\* the entry of a key expired, the timer of the key has fired since (its
\* handle is still in the map) and found nothing
C21_Witness ==
    \E e \in gone :
        /\ e.cause = "expired"
        /\ ~TimerPending(e.key)
        /\ timeoutKey(e.key[1], e.key[2], e.key[3]) \in DOMAIN messageTimeouts
        /\ procs = {} /\ DOMAIN redis = {} /\ db = {}

\* the step is the return of the completeAllPendingMessages call p
AllReturns(p) ==
    p.kind = "all" /\ p.pc = "get" /\ p.todo = {} /\ p \in procs /\ p \notin procs'

(***************************************************************************)
(* C22  flushAll cancels timers: when completeAllPendingMessages returns   *)
(* and no ingest ran during it, no timer is armed for any key and the map  *)
(* of handles is empty.                                                    *)
(***************************************************************************)
C22_FlushAllCancelsTimers ==
    [][\A p \in procs :
          (AllReturns(p) /\ ~p.overlap) =>
              /\ timers' = {}
              /\ DOMAIN messageTimeouts' = {}]_vars

\* the step is the start of translateText call r.call, which returned r at
\* once
ReturnsAtOnce(r) == r \in returns' /\ r \notin returns /\ r.call = nTranslate + 1

\* the step is the start of a translateText call on cacheKey that goes on
\* to the first request
GoesToNetwork(cacheKey) ==
    \E c \in calls' :
        /\ c \notin calls /\ c.id = nTranslate + 1 /\ c.pc = "post"
        /\ trCacheKey(c.text, c.targetLanguage) = cacheKey

\* the step is the end of call c with what a provider answered, parsed
ReturnsFromNetwork(c, r) ==
    /\ c \in calls /\ r \in returns' /\ r \notin returns /\ r.call = c.id
    /\ r.result.success

\* the entry of cacheKey is cacheTimeout old or older
Stale(cacheKey) ==
    cacheKey \in DOMAIN cache /\ now - cache[cacheKey].timestamp >= cacheTimeout

(***************************************************************************)
(* C26  Soft 24 h TTL: a call that returns a cached entry returns one      *)
(* younger than 24 h; a call (non-blank text, a key set) that finds the    *)
(* entry of its text 24 h old or older goes on to the first request, as a  *)
(* call that finds no entry does; and when it returns what the providers   *)
(* gave, the entry holds that result and the time of the write.            *)
(***************************************************************************)
C26_SoftTTL ==
    [][/\ \A r \in returns' :
             (ReturnsAtOnce(r) /\ r.result.cached) =>
                 LET cacheKey == trCacheKey(r.text, r.targetLanguage)
                 IN  /\ cacheKey \in DOMAIN cache
                     /\ now - cache[cacheKey].timestamp < cacheTimeout
                     /\ r.result.translation = cache[cacheKey].translation
       /\ \A text \in TrTexts :
             LET cacheKey == trCacheKey(text, English)
             IN  (/\ nTranslate' = nTranslate + 1
                  /\ \/ \E r \in returns' : ReturnsAtOnce(r) /\ r.text = text
                     \/ GoesToNetwork(cacheKey)
                  /\ trim(text) # <<>> /\ (groqKey \/ openaiKey)
                  /\ Stale(cacheKey) \/ cacheKey \notin DOMAIN cache)
                     => GoesToNetwork(cacheKey)
       /\ \A c \in calls, r \in returns' :
             ReturnsFromNetwork(c, r) =>
                 LET cacheKey == trCacheKey(c.text, c.targetLanguage)
                 IN  /\ cacheKey \in DOMAIN cache'
                     /\ cache'[cacheKey].timestamp = now
                     /\ cache'[cacheKey].translation = r.result.translation
                     /\ cache'[cacheKey].isEnglish = r.result.isEnglish]_vars

\* a call found the entry of its text 24 h old, asked the providers and
\* wrote the entry anew
C26_Witness ==
    \E r1, r2 \in returns :
        /\ r1.text = r2.text /\ r1.network /\ r2.network
        /\ r1.result.success /\ r2.result.success
        /\ r2.startedAt - r1.returnedAt >= cacheTimeout
        /\ cache[trCacheKey(r2.text, r2.targetLanguage)].timestamp = r2.returnedAt
        /\ r2.returnedAt > 0

\* the text is empty or of blanks only
Blank(text) == \A i \in 1..Len(text) : text[i] = " "

(***************************************************************************)
(* C27  Empty input: a translateText call on an empty text or a text of    *)
(* blanks returns at once a failure, 'Empty text provided'; no request is  *)
(* ever issued for such a text and no entry of the cache is written for    *)
(* it.                                                                     *)
(***************************************************************************)
C27_EmptyInput ==
    /\ \A r \in returns :
          Blank(r.text) =>
              /\ ~r.result.success
              /\ r.result.error = "Empty text provided"
              /\ ~r.network /\ ~r.result.cached
              /\ r.returnedAt = r.startedAt
    /\ \A c \in calls : ~Blank(c.text)
    /\ \A text \in TrTexts :
          Blank(text) => trCacheKey(text, English) \notin DOMAIN cache

\* a call on a text of blanks has returned, with a key set and an entry in
\* the cache
C27_Witness ==
    /\ groqKey
    /\ DOMAIN cache # {}
    /\ \E r \in returns : r.text = <<" ">> /\ ~r.result.success

\* the message of an entry, of a call or of a timer has all of deviceId,
\* packageName and viewId
HasKey(key) ==
    /\ key[1] \notin {Missing, Undefined}
    /\ key[2] \notin {Missing, Undefined}
    /\ key[3] \notin {Missing, Undefined}

(***************************************************************************)
(* C28  Validation: no event that lacks deviceId, packageName, viewId or   *)
(* its text reaches the engine: every entry of the cache, every call of    *)
(* the cache service in flight, every timer and every document has a       *)
(* complete key and a text, and the calls made are as many as the events   *)
(* that had both.                                                          *)
(***************************************************************************)
C28_Validation ==
    /\ \A cacheKey \in DOMAIN redis :
          LET m == redis[cacheKey].val
          IN  HasKey(<<m.deviceId, m.packageName, m.viewId>>) /\ m.currentText # <<>>
    /\ \A p \in procs : p.kind = "ingest" => HasKey(p.key) /\ p.text # <<>>
    /\ \A t \in timers : HasKey(t.key)
    /\ \A d \in db : HasKey(<<d.deviceId, d.packageName, d.viewId>>)
    /\ \A r \in log : HasKey(r.key) /\ r.text # <<>>

\* the step belongs to the serving of a complete event
DirectStep == direct' # direct \/ replies' # replies

\* the response says the event's own document was written, with its text
WrittenAsIs(r) ==
    r.textInputId = r.ev.id /\ r.keyboardInput = r.ev.keyboardInput

(***************************************************************************)
(* C23  Explicit-complete path: a complete event that is answered 201 was  *)
(* written as a document of its own, with its id and its text, whatever    *)
(* the collection held (no matching against it), and no step of its        *)
(* serving changes the cache entries, their TTLs, the timers or the map    *)
(* of timer handles.                                                       *)
(***************************************************************************)
C23_ExplicitComplete ==
    [][DirectStep =>
          /\ \A r \in replies' \ replies : r.status = 201 => WrittenAsIs(r)
          /\ UNCHANGED <<redis, timers, messageTimeouts, procs>>]_vars

\* the document a call in service upserted is stored with the text it had
Stored(D, w) == \E d \in D : d.id = w.doc /\ d.keyboardInput = w.text

\* the call is answered 201 with that document and text
Succeeds(w, r) ==
    /\ r.status = 201
    /\ r.ev = w.ev
    /\ r.textInputId = w.doc
    /\ r.keyboardInput = w.text

(***************************************************************************)
(* C25: translation failures are invisible to ingestion.  From the upsert  *)
(* of a complete event to its response, whatever translateText returns,    *)
(* the document stays stored with the text of the upsert, and the          *)
(* response is 201 and carries that document and text.                     *)
(***************************************************************************)
C25_TranslationInvisible ==
    [][/\ \A w \in direct : Stored(db', w)
       /\ \A w \in direct \ direct' :
              \E r \in replies' : Succeeds(w, r)]_vars

\* C25: a complete event whose translation gave nothing has been answered
\* 201 and its document is stored with its text
C25_Witness ==
    \E r \in replies, ret \in returns :
        /\ r.status = 201
        /\ r.textInputId = r.ev.id
        /\ ret.text = r.keyboardInput
        /\ ~ret.result.success \/ ret.fallback
        /\ \E d \in db : d.id = r.textInputId
                         /\ d.keyboardInput = r.keyboardInput
                         /\ d.keyboardInputEN = <<>>

\* translateText has returned for the text of the document
Translated(d) == \E r \in returns : r.text = d.keyboardInput

(***************************************************************************)
(* C24: every flush feeds enrichment.  Once no request is being served,    *)
(* every document of the collection, whichever way it was written, has     *)
(* had its text handed to translateText.                                   *)
(***************************************************************************)
C24_FlushFeedsEnrichment == Quiet => \A d \in db : Translated(d)

\* the pending entry of a key: what the store holds under its cache key
PendingOf(key) ==
    LET cacheKey == getCacheKey(key[1], key[2], key[3])
    IN  IF cacheKey \in DOMAIN redis THEN {redis[cacheKey]} ELSE {}

\* the timer of a key: the handle messageTimeouts holds for it
HandleOf(key) ==
    LET tk == timeoutKey(key[1], key[2], key[3])
    IN  IF tk \in DOMAIN messageTimeouts THEN {messageTimeouts[tk]} ELSE {}

\* the records of a key
RecordsFor(key) ==
    {d \in db : <<d.deviceId, d.packageName, d.viewId>> = key}

\* the calls on one key that take a step
Stepping == {p \in procs \ procs' : p.kind \in {"ingest", "timer"}}

(***************************************************************************)
(* C29: cross-key independence.  A step of an ingest or of a flush on one  *)
(* key leaves the pending entry, the timer and the records of every other  *)
(* key as they were.                                                       *)
(***************************************************************************)
C29_CrossKeyIndependence ==
    [][\A p \in Stepping : \A key \in SeparatorKeys \ {p.key} :
           /\ PendingOf(key)' = PendingOf(key)
           /\ HandleOf(key)' = HandleOf(key)
           /\ RecordsFor(key)' = RecordsFor(key)]_vars

\* the cost of putting t in the place of c
substitution(c, t) == IF c = t THEN 0 ELSE 1

(***************************************************************************)
(* The Levenshtein distance of s and t: the least cost of turning s into   *)
(* t where deleting a character of s, inserting a character of t and       *)
(* substituting one for another cost 1 each.  costs(prev, c, t, cur)       *)
(* extends cur to the costs of turning a prefix of s that ends with c      *)
(* into each prefix of t, prev being those costs for the prefix without    *)
(* c: c is deleted, or the last character of the prefix of t is inserted,  *)
(* or it is put for c.                                                     *)
(***************************************************************************)
RECURSIVE costs(_, _, _, _)
costs(prev, c, t, cur) ==
    IF Len(cur) = Len(t) + 1 THEN cur
    ELSE LET j == Len(cur)
         IN  costs(prev, c, t,
                   Append(cur, min3(prev[j + 1] + 1, cur[j] + 1,
                                    prev[j] + substitution(c, t[j]))))

RECURSIVE costsFrom(_, _, _)
costsFrom(prev, s, t) ==
    IF s = <<>> THEN prev
    ELSE costsFrom(costs(prev, Head(s), t, <<prev[1] + 1>>), Tail(s), t)

classicDistance(s, t) ==
    costsFrom([j \in 1..(Len(t) + 1) |-> j - 1], s, t)[Len(t) + 1]

\* the texts the call p compared, normalized: of the entry and of the event
Compared(p) ==
    <<trim(toLowerCase(p.msg.currentText)), trim(toLowerCase(p.text))>>

(***************************************************************************)
(* C31  Edit distance: on the two normalized texts of every comparison,    *)
(* in either order, and on each of them with the empty text,               *)
(* levenshteinDistance is the Levenshtein distance.                        *)
(***************************************************************************)
C31_EditDistance ==
    \A p \in procs :
        Matched(p) =>
            \A s, t \in {Compared(p)[1], Compared(p)[2], <<>>} :
                levenshteinDistance(s, t) = classicDistance(s, t)

\* C31: texts of different lengths were compared that are two edits or
\* more apart, one of them a deletion or an insertion
C31_Witness ==
    \E p \in procs :
        /\ Matched(p)
        /\ Len(Compared(p)[1]) # Len(Compared(p)[2])
        /\ Compared(p)[1] # <<>> /\ Compared(p)[2] # <<>>
        /\ levenshteinDistance(Compared(p)[1], Compared(p)[2]) >= 2
        /\ levenshteinDistance(Compared(p)[1], Compared(p)[2])
               > lengthDifference(Compared(p)[1], Compared(p)[2])

\* the pending entries in the store
PendingEntries == {redis[cacheKey].val : cacheKey \in DOMAIN redis}

\* the pending entries of a device
EntriesOfDevice(deviceId) == {m \in PendingEntries : m.deviceId = deviceId}

\* the sum of the counts of a breakdown
RECURSIVE SumOf(_)
SumOf(stats) ==
    IF DOMAIN stats = {} THEN 0
    ELSE LET d == CHOOSE x \in DOMAIN stats : TRUE
         IN  stats[d] + SumOf([x \in DOMAIN stats \ {d} |-> stats[x]])

(***************************************************************************)
(* C32  Stats: while the client is connected, getCacheStats reports as     *)
(* pendingMessages the number of pending entries in the store, and its     *)
(* deviceStats give every device that has pending entries the number of    *)
(* its entries, no other device a count, and sum to pendingMessages.       *)
(***************************************************************************)
C32_Stats ==
    isConnected =>
        LET stats == getCacheStats
        IN  /\ stats.pendingMessages = Cardinality(PendingEntries)
            /\ \A m \in PendingEntries :
                   /\ m.deviceId \in DOMAIN stats.deviceStats
                   /\ stats.deviceStats[m.deviceId]
                          = Cardinality(EntriesOfDevice(m.deviceId))
            /\ \A d \in DOMAIN stats.deviceStats : EntriesOfDevice(d) # {}
            /\ SumOf(stats.deviceStats) = stats.pendingMessages

\* the cache keys under which the store holds an active entry of the key
ActiveOf(key) ==
    {cacheKey \in DOMAIN redis :
        LET m == redis[cacheKey].val
        IN  m.isActive /\ <<m.deviceId, m.packageName, m.viewId>> = key}

\* the call p writes the new message of a divergence
Diverging(p) == p.kind = "ingest" /\ p.pc = "setDiv"

(***************************************************************************)
(* C33  At most one active pending entry per key: after every step the     *)
(* store holds at most one active entry with the deviceId, packageName     *)
(* and viewId of a key, and the step that ends a divergence leaves the     *)
(* new message as the only entry of its key, in the place of the old one.  *)
(***************************************************************************)
C33_OneEntryPerKey ==
    [][/\ \A key \in Keys : Cardinality(ActiveOf(key))' <= 1
       /\ \A p \in procs \ procs' :
              Diverging(p) =>
                  /\ ActiveOf(p.key)' = {cacheKeyOf(p)}
                  /\ redis'[cacheKeyOf(p)].val = p.out]_vars

\* C33: a divergence has replaced the entry of a key by the new message,
\* the message before it being in the collection
C33_Witness ==
    \E r \in log :
        /\ r.shouldUpdate
        /\ \E cacheKey \in DOMAIN redis :
               /\ redis[cacheKey].val = r.cachedMessage
               /\ ActiveOf(<<r.cachedMessage.deviceId, r.cachedMessage.packageName,
                             r.cachedMessage.viewId>>) = {cacheKey}
        /\ db # {}

\* the continuations accepted on the entry m: the calls that returned it
\* with isPartOfExisting
Continuations(m) == {r \in ResultsOn(m) : r.isPartOfExisting}

(***************************************************************************)
(* C34  PendingEntry attributes: every entry in the store has an           *)
(* updateCount of 1 plus the number of continuations accepted on it since  *)
(* it was created, and a start time that is not later than its last        *)
(* update time; a continuation leaves the start time of the entry as it    *)
(* was.                                                                    *)
(***************************************************************************)
C34_EntryAttributes ==
    [][/\ \A m \in PendingEntries' :
              /\ m.updateCount >= 1
              /\ m.updateCount = 1 + Cardinality(Continuations(m)')
              /\ m.startTime[1] <= m.lastUpdateTime
       /\ \A p \in procs \ procs' :
              (p.kind = "ingest" /\ p.pc = "setCont") =>
                  redis'[cacheKeyOf(p)].val.startTime = p.msg.startTime]_vars

\* neither of the texts the call p compared contains the other
NoContainment(p) ==
    /\ ~includes(Compared(p)[1], Compared(p)[2])
    /\ ~includes(Compared(p)[2], Compared(p)[1])

\* ten times the part of the longer text that the edits leave, and eight
\* times its length: the ratio against 0.8
TenKept(p) ==
    10 * (maxLen(Compared(p)[1], Compared(p)[2])
            - classicDistance(Compared(p)[1], Compared(p)[2]))

EightLen(p) == 8 * maxLen(Compared(p)[1], Compared(p)[2])

(***************************************************************************)
(* C35  Strict threshold: a call that compared two texts neither of which  *)
(* contains the other goes on as a continuation only when the similarity   *)
(* ratio is above 0.8; at a ratio of exactly 0.8 it goes on as a           *)
(* divergence and saves the cached message.                                *)
(***************************************************************************)
C35_StrictThreshold ==
    \A p \in procs :
        (Matched(p) /\ NoContainment(p)) =>
            /\ (p.pc = "setCont") <=> TenKept(p) > EightLen(p)
            /\ TenKept(p) = EightLen(p) => p.pc \in {"save", "setDiv"}

\* C35: texts of length 5 one edit apart were compared (a ratio of exactly
\* 0.8) and the call diverges
C35_Witness ==
    \E p \in procs :
        /\ Matched(p) /\ NoContainment(p)
        /\ Len(Compared(p)[1]) = 5 /\ Len(Compared(p)[2]) = 5
        /\ classicDistance(Compared(p)[1], Compared(p)[2]) = 1
        /\ TenKept(p) = EightLen(p)
        /\ p.pc = "save"

\* the document of D with the id of d is no shorter than d
NoShorter(D, d) ==
    \A e \in D : e.id = d.id => Len(e.keyboardInput) >= Len(d.keyboardInput)

(***************************************************************************)
(* C36  Longest input per id: no step makes the keyboardInput stored for   *)
(* an id shorter than it was.                                              *)
(***************************************************************************)
C36_LongestPerId == [][\A d \in db : NoShorter(db', d)]_vars

\* the attempts the loop of the call's provider makes on a model
attemptsOf(c) == IF c.useGroq THEN GroqAttempts ELSE OpenaiAttempts

modelsOf(c) == IF c.useGroq THEN groqModels ELSE openaiModels

\* the requests the loops can have issued before the one the call is at:
\* those of the GROQ loop when the call has left it, of the models before
\* model i and of the attempts before attemptNum
requestsBefore(c) ==
    (IF ~c.useGroq /\ groqKey THEN Len(groqModels) * GroqAttempts ELSE 0)
        + (c.i - 1) * attemptsOf(c) + c.attemptNum

\* the most requests of one call
mostRequests ==
    Len(groqModels) * GroqAttempts + Len(openaiModels) * OpenaiAttempts

\* how far the call is: its request, then the backoff after it
progress(c) == 2 * requestsBefore(c) + (IF c.pc = "sleep" THEN 1 ELSE 0)

\* the call with the id is in flight / has returned
Calling(id) == \E c \in calls : c.id = id

Returned(id) == \E r \in returns : r.call = id

(***************************************************************************)
(* C37  Bounded attempts: a call in flight is at one of the 3 attempts of  *)
(* a GROQ model or one of the 2 attempts of an OpenAI model, at most at    *)
(* its 13th request; every step of a call takes it further in the loops    *)
(* or makes it return; and every call in flight returns.                   *)
(***************************************************************************)
C37_BoundedAttempts ==
    /\ [][\A c \in calls' :
              /\ c.i \in 1..Len(modelsOf(c))
              /\ c.attemptNum \in 0..(attemptsOf(c) - 1)
              /\ requestsBefore(c) + 1 <= mostRequests
              /\ mostRequests = 13]_vars
    /\ [][\A c \in calls \ calls' :
              \/ Returned(c.id)'
              \/ \E d \in calls' : d.id = c.id /\ progress(d) > progress(c)]_vars
    /\ \A id \in 1..MaxTranslateSeq : Calling(id) ~> Returned(id)

\* C37: a call is at its 13th request, the second attempt of the second
\* OpenAI model after three attempts of each of the three GROQ models
C37_Witness ==
    \E c \in calls :
        /\ groqKey /\ ~c.useGroq /\ c.pc = "post"
        /\ c.i = Len(openaiModels) /\ c.attemptNum = OpenaiAttempts - 1
        /\ requestsBefore(c) + 1 = 13

(***************************************************************************)
(* C38  The matcher is symmetric: on the text of the entry and the text    *)
(* of the event of every comparison, isTextPartOfMessage gives the same    *)
(* with the two texts exchanged, so the call goes on as a continuation     *)
(* exactly when it would with the texts exchanged; it holds of each text   *)
(* with itself, and of neither with the empty text.                        *)
(***************************************************************************)
C38_MatcherSymmetric ==
    \A p \in procs :
        Matched(p) =>
            LET a == p.msg.currentText
                b == p.text
            IN  /\ isTextPartOfMessage(a, b) = isTextPartOfMessage(b, a)
                /\ (p.pc = "setCont") <=> isTextPartOfMessage(b, a)
                /\ isTextPartOfMessage(a, a) /\ isTextPartOfMessage(b, b)
                /\ ~isTextPartOfMessage(a, <<>>) /\ ~isTextPartOfMessage(<<>>, a)

\* C38: a continuation by the similarity ratio alone of two texts of
\* different lengths, the shorter one cached
C38_Witness ==
    \E p \in procs :
        /\ Matched(p) /\ NoContainment(p)
        /\ p.pc = "setCont"
        /\ Len(Compared(p)[1]) < Len(Compared(p)[2])

=============================================================================
